---- MODULE Spec2Model ----
(***************************************************************************)
(* Bar-by-bar trade simulation engines of the XAU/USD trading bot.         *)
(*                                                                         *)
(* Each engine is a loop over price bars that holds its state in local     *)
(* variables; here every engine is one record variable whose fields carry  *)
(* the names of those locals, and one action per loop iteration.           *)
(*                                                                         *)
(*   ws  WorkingStrategy.backtest         src/src/strategy/working_strategy.py        *)
(*   rb  RealisticBacktester.run_backtest src/src/strategy/realistic_backtester.py    *)
(*   op  OptimizedPropStrategy.backtest_challenge                          *)
(*                                        src/src/strategy/optimized_prop_strategy.py *)
(*   pf  PropFirmStrategy.backtest        src/src/strategy/prop_firm_strategy.py      *)
(*                                                                         *)
(* Numbers.  The code computes in floats.  The model computes in integers: *)
(* prices are whole ticks, position sizes are whole size units, and money  *)
(* is counted in tick x size-unit, so that pnl = price difference x size   *)
(* is exact.  The only inexact step is a division (position sizing), which *)
(* truncates to a whole size unit.  Fractional multipliers (1.5, 0.8, ...) *)
(* are fractions num/den applied to values they divide exactly.            *)
(*                                                                         *)
(* Inputs.  A bar is (high, low, close) with low <= close <= high, an ATR  *)
(* value and a signal, drawn anew at every iteration: the engines never    *)
(* look ahead, so drawing the bars one at a time is the same as drawing    *)
(* the whole data frame first.  The data may end after any bar (the        *)
(* Finish actions), which covers every input length up to the bound.       *)
(* A missing (NaN) ATR is the input 0: the code treats NaN and values <= 0 *)
(* alike wherever it tests for them.                                       *)
(* The fields high and low hold the bar's range on the iterations that     *)
(* read it (a position was open when the bar began) and 0 otherwise.       *)
(***************************************************************************)
EXTENDS Integers, Sequences, FiniteSets, TLC

VARIABLES ws, rb, op, pf, ch, fn, ht, fp, rb2, rm, mm, pb

vars == <<ws, rb, op, pf, ch, fn, ht, fp, rb2, rm, mm, pb>>

\* What a step of one part leaves alone: the variables of the other parts.
NotWS == <<rb, op, pf, ch, fn, ht, fp, rb2, rm, mm, pb>>

NotRB == <<ws, op, pf, ch, fn, ht, fp, rb2, rm, mm, pb>>

NotOP == <<ws, rb, pf, ch, fn, ht, fp, rb2, rm, mm, pb>>

NotPF == <<ws, rb, op, ch, fn, ht, fp, rb2, rm, mm, pb>>

NotCH == <<ws, rb, op, pf, fn, ht, fp, rb2, rm, mm, pb>>

NotFN == <<ws, rb, op, pf, ch, ht, fp, rb2, rm, mm, pb>>

NotHT == <<ws, rb, op, pf, ch, fn, fp, rb2, rm, mm, pb>>

NotFP == <<ws, rb, op, pf, ch, fn, ht, rb2, rm, mm, pb>>

NotRB2 == <<ws, rb, op, pf, ch, fn, ht, fp, rm, mm, pb>>

NotTWIN == <<ws, op, pf, ch, fn, ht, fp, rm, mm, pb>>

NotRM == <<ws, rb, op, pf, ch, fn, ht, fp, rb2, mm, pb>>

NotMM == <<ws, rb, op, pf, ch, fn, ht, fp, rb2, rm, pb>>

NotPB == <<ws, rb, op, pf, ch, fn, ht, fp, rb2, rm, mm>>

(***************************************************************************)
(* Arithmetic helpers                                                      *)
(***************************************************************************)
Max2(a, b) == IF a >= b THEN a ELSE b

Min2(a, b) == IF a <= b THEN a ELSE b

Abs(a) == IF a < 0 THEN -a ELSE a

\* Truncating division (toward zero), the stand-in for float division.
Div(a, b) == IF a >= 0 THEN a \div b ELSE -((-a) \div b)

\* x * num / den
MulFrac(x, num, den) == Div(x * num, den)

Last(s) == s[Len(s)]

RECURSIVE SumPnl(_, _)
SumPnl(ts, field) == IF ts = <<>> THEN 0 ELSE ts[1][field] + SumPnl(Tail(ts), field)

\* Bars (high, low, close) over a set of prices.
BarsOver(P) == {b \in [high : P, low : P, close : P] : b.low <= b.close /\ b.close <= b.high}

\* Number of bars after the warm-up that a run may process.
MaxBars == 3

\* Number of bars after the first that a RealisticBacktester run may process.
RBMaxBars == 2

(***************************************************************************)
(* WorkingStrategy.backtest                                                *)
(***************************************************************************)
\* The first index the loop trades on (i < 60 only records the capital).
WSWarmUp == 60

\* initial_capital, in tick x size-unit.
WSInitialCapital == 6000000

\* risk_per_trade = 0.02, as a percentage.
WSRiskPct == 2

\* sl_atr_mult = 2.0, tp_atr_mult = 4.0
WSSlAtrMult == 2

WSTpAtrMult == 4

\* trail_atr_mult = 1.5 = 3/2
WSTrailNum == 3

WSTrailDen == 2

\* max_size = (capital * 0.1) / close: 10 percent.
WSMaxPosPct == 10

\* The fallback ATR is close * 0.01.
AtrFloorDen == 100

\* float('inf'), the initial lowest_price.
WSInf == 1000000000

WSPrices == {9600, 10000, 10400}

\* 0 stands for a NaN or non-positive ATR.
WSAtrs == {0, 2000}

Signals == {-1, 0, 1}

NoTrade == [entry_date |-> -1, entry_price |-> 0, side |-> "none", size |-> 0,
            stop_loss |-> 0, take_profit |-> 0,
            exit_price |-> 0, exit_reason |-> "none", pnl |-> 0, exit_date |-> -1]

\* The locals of backtest() before the loop.  opens is a history field: the
\* bar indices at which a position was opened (the entry side of the trade
\* log); exit_date in a trade is a history field too, the bar of the exit.
WSStart == [pc |-> "loop", i |-> 0, capital |-> WSInitialCapital, position |-> 0,
            entry_price |-> 0, stop_loss |-> 0, take_profit |-> 0,
            highest_price |-> 0, lowest_price |-> WSInf, effective_stop |-> 0,
            trades |-> <<>>, current_trade |-> NoTrade,
            high |-> 0, low |-> 0, close |-> 0, opens |-> <<>>,
            final_capital |-> 0]

\* if pd.isna(atr) or atr <= 0: atr = close * 0.01
WSAtr(atr, close) == IF atr <= 0 THEN Div(close, AtrFloorDen) ELSE atr

\* The closing of the open position at exit_price for the given reason.
WSClose(s, exit_price, reason) ==
    LET pnl == IF s.position > 0 THEN (exit_price - s.entry_price) * s.position
               ELSE (s.entry_price - exit_price) * Abs(s.position)
        t == [s.current_trade EXCEPT !.exit_price = exit_price, !.exit_reason = reason,
                                     !.pnl = pnl, !.exit_date = s.i]
    IN [s EXCEPT !.capital = s.capital + pnl,
                 !.trades = IF s.current_trade.side # "none" THEN Append(s.trades, t)
                            ELSE s.trades,
                 !.position = 0,
                 !.current_trade = NoTrade]

\* The exit decision for a long position: stop first, then target, then reversal.
WSLongExitReversalFirst(low, high, signal, effective_stop, take_profit) ==
    IF signal = -1 THEN "signal_reversal"
    ELSE IF low <= effective_stop THEN "stop_loss"
    ELSE IF high >= take_profit THEN "take_profit"
    ELSE "none"

WSLongExit(low, high, signal, effective_stop, take_profit) ==
    IF low <= effective_stop THEN "stop_loss"
    ELSE IF high >= take_profit THEN "take_profit"
    ELSE IF signal = -1 THEN "signal_reversal"
    ELSE "none"

WSShortExit(low, high, signal, effective_stop, take_profit) ==
    IF high >= effective_stop THEN "stop_loss"
    ELSE IF low <= take_profit THEN "take_profit"
    ELSE IF signal = 1 THEN "signal_reversal"
    ELSE "none"

WSExitPrice(reason, effective_stop, take_profit, close) ==
    CASE reason = "stop_loss" -> effective_stop
      [] reason = "take_profit" -> take_profit
      [] OTHER -> close

\* "Manage existing position": lines 120-223.
WSManage(s, high, low, close, atr, signal) ==
    IF s.position > 0 THEN
        LET highest == Max2(s.highest_price, high)
            trail_stop == highest - MulFrac(atr, WSTrailNum, WSTrailDen)
            effective_stop == Max2(s.stop_loss, trail_stop)
            reason == WSLongExit(low, high, signal, effective_stop, s.take_profit)
            m == [s EXCEPT !.highest_price = highest, !.effective_stop = effective_stop]
        IN IF reason = "none" THEN m
           ELSE WSClose(m, WSExitPrice(reason, effective_stop, s.take_profit, close), reason)
    ELSE IF s.position < 0 THEN
        LET lowest == Min2(s.lowest_price, low)
            trail_stop == lowest + MulFrac(atr, WSTrailNum, WSTrailDen)
            effective_stop == Min2(s.stop_loss, trail_stop)
            reason == WSShortExit(low, high, signal, effective_stop, s.take_profit)
            m == [s EXCEPT !.lowest_price = lowest, !.effective_stop = effective_stop]
        IN IF reason = "none" THEN m
           ELSE WSClose(m, WSExitPrice(reason, effective_stop, s.take_profit, close), reason)
    ELSE s

\* if position == 0 and signal != 0
WSEntryAllowedAlways(position, signal) == signal # 0

WSEntryAllowed(position, signal) == position = 0 /\ signal # 0

\* "New entry": lines 225-255.
WSEntry(s, close, atr, signal) ==
    IF WSEntryAllowed(s.position, signal) THEN
        LET risk_amount == MulFrac(s.capital, WSRiskPct, 100)
            stop_loss == IF signal = 1 THEN close - atr * WSSlAtrMult
                         ELSE close + atr * WSSlAtrMult
            take_profit == IF signal = 1 THEN close + atr * WSTpAtrMult
                           ELSE close - atr * WSTpAtrMult
            risk_per_unit == IF signal = 1 THEN close - stop_loss ELSE stop_loss - close
            m == [s EXCEPT !.stop_loss = stop_loss, !.take_profit = take_profit]
        IN IF risk_per_unit > 0 THEN
               LET max_size == Div(MulFrac(s.capital, WSMaxPosPct, 100), close)
                   position_size == Min2(Div(risk_amount, risk_per_unit), max_size)
                   position == IF signal > 0 THEN position_size ELSE -position_size
               IN [m EXCEPT !.position = position,
                            !.entry_price = close,
                            !.highest_price = close,
                            !.lowest_price = close,
                            !.current_trade =
                                [NoTrade EXCEPT !.entry_date = s.i,
                                                !.entry_price = close,
                                                !.side = IF signal > 0 THEN "long" ELSE "short",
                                                !.size = Abs(position),
                                                !.stop_loss = stop_loss,
                                                !.take_profit = take_profit],
                            !.opens = Append(s.opens, s.i)]
           ELSE m
    ELSE s

\* One iteration of the loop for i >= 60.
WSStep(s, high, low, close, atr_in, signal) ==
    LET atr == WSAtr(atr_in, close)
        b == [s EXCEPT !.high = IF s.position # 0 THEN high ELSE 0,
                       !.low = IF s.position # 0 THEN low ELSE 0,
                       !.close = close]
        m == WSManage(b, high, low, close, atr, signal)
        e == WSEntry(m, close, atr, signal)
    IN [e EXCEPT !.i = s.i + 1]

\* i < 60: the bar is recorded with the untouched capital and skipped.
WSWarmUpBar ==
    /\ ws.pc = "loop"
    /\ ws.i < WSWarmUp
    /\ ws' = [ws EXCEPT !.i = ws.i + 1]
    /\ UNCHANGED NotWS

WSBar ==
    /\ ws.pc = "loop"
    /\ ws.i >= WSWarmUp
    /\ ws.i < WSWarmUp + MaxBars
    /\ \E b \in BarsOver(WSPrices), atr \in WSAtrs, signal \in Signals :
          ws' = WSStep(ws, b.high, b.low, b.close, atr, signal)
    /\ UNCHANGED NotWS

\* The forced close at the last bar's close: lines 263-274.  position keeps
\* its value, as the local does in the code.
WSEndOfData(s) ==
    LET c == WSClose([s EXCEPT !.i = s.i - 1], s.close, "end_of_data")
    IN [c EXCEPT !.position = s.position, !.i = s.i]

\* "Close remaining": if position != 0.  The data ends here.
WSCloseRemainingLongOnly(s) == IF s.position > 0 THEN WSEndOfData(s) ELSE s

WSCloseRemaining(s) == IF s.position # 0 THEN WSEndOfData(s) ELSE s

WSFinish ==
    /\ ws.pc = "loop"
    /\ LET c == WSCloseRemaining(ws)
       IN ws' = [c EXCEPT !.pc = "done", !.final_capital = c.capital]
    /\ UNCHANGED NotWS

WSNext == WSWarmUpBar \/ WSBar \/ WSFinish

(***************************************************************************)
(* RealisticBacktester.run_backtest                                        *)
(*                                                                         *)
(* Prices and costs are in half-cents (0.005 dollar), sizes in ounces: the *)
(* lot rounding of the code makes every position a whole number of         *)
(* min_lot_size * lot_size_units = 1 ounce.  ATR inputs are positive here: *)
(* the code has no guard of its own for a NaN or zero ATR.                 *)
(***************************************************************************)
\* initial_capital = 10000 dollars
RBInitialCapital == 2000000

\* spread_pips = 30: spread_dollars = 0.30 per ounce
RBSpread == 60

\* commission_per_lot / 2 = 3.5 dollars per lot of 100 ounces, per ounce
RBCommissionHalf == 7

\* slippage_pips = 5: slippage_dollars = 0.05
RBSlippage == 10

\* leverage = 100
RBLeverage == 100

\* stop_out_level = 0.20 = 1/5
RBStopOutDen == 5

\* risk_amount = capital * 0.02
RBRiskPct == 2

\* stop_distance = atr * 1.5 = atr * 3/2; take profit at atr * 3.0
RBStopNum == 3

RBStopDen == 2

RBTpMult == 3

\* required_margin > capital * 0.9
RBMarginPct == 90

\* np.random.uniform(0.5, 1.5), in tenths: the low end and a draw near the high end.
RBSlipFactors == {5, 14}

\* 1925, 2000 and 2004 dollars: a crash, the reference price, a rally.
RBPrices == {385000, 400000, 400800}

\* 0.25 dollar (margin rejected), 0.30 dollar (the margin just fits), 1 dollar,
\* 150 dollars (below the minimum lot).
RBAtrs == {50, 60, 200, 30000}

RBStart(has_atr) ==
    [pc |-> "loop", i |-> 1, has_atr |-> has_atr,
     capital |-> RBInitialCapital, position |-> 0,
     entry_price |-> 0, entry_date |-> -1, stop_loss |-> 0, take_profit |-> 0,
     equity_curve |-> <<RBInitialCapital>>, trades |-> <<>>,
     high |-> 0, low |-> 0, close |-> 0, opens |-> <<>>, final_capital |-> 0]

\* round() of a non-negative quotient n/d: to nearest, ties to even.
RoundHalfEven(n, d) ==
    LET q == n \div d
        r == n % d
    IN IF 2 * r < d THEN q
       ELSE IF 2 * r > d THEN q + 1
       ELSE IF q % 2 = 0 THEN q ELSE q + 1

\* calculate_required_margin
RBRequiredMargin(position_size, price) == Div(Abs(position_size) * price, RBLeverage)

\* calculate_transaction_costs; u is the draw of np.random.uniform, in tenths.
RBCosts(position_size, is_entry, u) ==
    LET spread_cost == IF is_entry THEN Abs(position_size) * RBSpread ELSE 0
        commission == Abs(position_size) * RBCommissionHalf
        slippage == Div(Abs(position_size) * RBSlippage * u, 10)
    IN [spread_cost |-> spread_cost, commission |-> commission, slippage |-> slippage,
        total |-> spread_cost + commission + slippage]

\* atr = data['atr'].iloc[i] if 'atr' in data.columns else current_price * 0.01
RBAtr(has_atr, atr, current_price) ==
    IF has_atr THEN atr ELSE Div(current_price, AtrFloorDen)

\* The append of a TradeResult and the booking of its net pnl.
RBClose(s, exit_price, exit_date, gross_pnl, reason, u) ==
    LET exit_costs == RBCosts(s.position, FALSE, u)
        net_pnl == gross_pnl - exit_costs.total
        t == [entry_date |-> s.entry_date, exit_date |-> exit_date,
              side |-> IF s.position > 0 THEN "long" ELSE "short",
              entry_price |-> s.entry_price, exit_price |-> exit_price,
              position_size |-> Abs(s.position), gross_pnl |-> gross_pnl,
              spread_cost |-> 0, commission |-> exit_costs.commission,
              slippage |-> exit_costs.slippage, net_pnl |-> net_pnl,
              exit_reason |-> reason]
    IN [s EXCEPT !.capital = s.capital + net_pnl,
                 !.trades = Append(s.trades, t),
                 !.position = 0]

RBStopOutNever(capital, position, entry_price, current_price) == FALSE

\* "Stop out check": lines 156-164.
RBStopOut(capital, position, entry_price, current_price) ==
    /\ position # 0
    /\ LET unrealized_pnl == (current_price - entry_price) * position
           equity == capital + unrealized_pnl
           margin_used == RBRequiredMargin(position, current_price)
       IN margin_used > 0 /\ equity * RBStopOutDen < margin_used

\* The stop-loss / take-profit decision of lines 190-287: the stop is tested first.
RBExitTpFirst(position, low_price, high_price, stop_loss, take_profit) ==
    IF position > 0 THEN
        IF high_price >= take_profit THEN "take_profit"
        ELSE IF low_price <= stop_loss THEN "stop_loss"
        ELSE "none"
    ELSE IF position < 0 THEN
        IF low_price <= take_profit THEN "take_profit"
        ELSE IF high_price >= stop_loss THEN "stop_loss"
        ELSE "none"
    ELSE "none"

RBExit(position, low_price, high_price, stop_loss, take_profit) ==
    IF position > 0 THEN
        IF low_price <= stop_loss THEN "stop_loss"
        ELSE IF high_price >= take_profit THEN "take_profit"
        ELSE "none"
    ELSE IF position < 0 THEN
        IF high_price >= stop_loss THEN "stop_loss"
        ELSE IF low_price <= take_profit THEN "take_profit"
        ELSE "none"
    ELSE "none"

\* "Check stop-loss and take-profit": lines 190-287.
RBManageAtClose(s, high_price, low_price, u) ==
    LET reason == RBExit(s.position, low_price, high_price, s.stop_loss, s.take_profit)
        exit_price == s.close
        gross_pnl == (exit_price - s.entry_price) * s.position
    IN IF reason = "none" THEN s
       ELSE RBClose(s, exit_price, s.i, gross_pnl, reason, u)

RBManage(s, high_price, low_price, u) ==
    LET reason == RBExit(s.position, low_price, high_price, s.stop_loss, s.take_profit)
        exit_price == IF reason = "stop_loss" THEN s.stop_loss ELSE s.take_profit
        gross_pnl == IF s.position > 0 THEN (exit_price - s.entry_price) * s.position
                     ELSE (s.entry_price - exit_price) * Abs(s.position)
    IN IF reason = "none" THEN s
       ELSE RBClose(s, exit_price, s.i, gross_pnl, reason, u)

\* if signal != 0 and position == 0
RBEntryAllowed(position, signal) == signal # 0 /\ position = 0

\* "Process new signals": lines 289-337.  The result has pc = "skip" when
\* the code leaves the iteration with "continue" after appending the capital.
RBEntry(s, current_price, atr, signal, u) ==
    IF RBEntryAllowed(s.position, signal) THEN
        LET n == s.capital * RBRiskPct * RBStopDen
            d == 100 * RBStopNum * atr
        IN IF n < d THEN
               \* lot_size < min_lot_size
               [s EXCEPT !.equity_curve = Append(s.equity_curve, s.capital),
                         !.pc = "skip"]
           ELSE
               LET position_size == Max2(1, RoundHalfEven(n, d))
                   required_margin == RBRequiredMargin(position_size, current_price)
               IN IF required_margin * 100 > s.capital * RBMarginPct THEN
                      [s EXCEPT !.equity_curve = Append(s.equity_curve, s.capital),
                                !.pc = "skip"]
                  ELSE
                      LET entry_costs == RBCosts(position_size, TRUE, u)
                          actual_entry == current_price
                                          + RBSlippage * (IF signal > 0 THEN 1 ELSE -1)
                          stop_distance == MulFrac(atr, RBStopNum, RBStopDen)
                      IN [s EXCEPT
                            !.position = IF signal > 0 THEN position_size ELSE -position_size,
                            !.entry_price = actual_entry,
                            !.entry_date = s.i,
                            !.stop_loss = IF signal > 0 THEN actual_entry - stop_distance
                                          ELSE actual_entry + stop_distance,
                            !.take_profit = IF signal > 0 THEN actual_entry + atr * RBTpMult
                                            ELSE actual_entry - atr * RBTpMult,
                            !.capital = s.capital - entry_costs.total,
                            !.opens = Append(s.opens, s.i)]
    ELSE s

\* One iteration of the loop, i >= 1.  u_exit and u_entry are the two draws of
\* the random slippage factor the iteration may make.
RBStep(s, high_price, low_price, current_price, atr_in, signal, u_exit, u_entry) ==
    LET atr == RBAtr(s.has_atr, atr_in, current_price)
        b == [s EXCEPT !.high = IF s.position # 0 THEN high_price ELSE 0,
                       !.low = IF s.position # 0 THEN low_price ELSE 0,
                       !.close = current_price]
    IN IF RBStopOut(b.capital, b.position, b.entry_price, current_price) THEN
           \* forced liquidation, then "continue"
           [RBClose(b, current_price, b.i,
                    (current_price - b.entry_price) * b.position, "stop_out", u_exit)
              EXCEPT !.i = s.i + 1]
       ELSE
           LET m == RBManage(b, high_price, low_price, u_exit)
               e == RBEntry(m, current_price, atr, signal, u_entry)
           IN IF e.pc = "skip" THEN [e EXCEPT !.pc = "loop", !.i = s.i + 1]
              ELSE [e EXCEPT !.i = s.i + 1,
                             !.equity_curve =
                                 Append(e.equity_curve,
                                        IF e.position # 0
                                        THEN e.capital
                                             + (current_price - e.entry_price) * e.position
                                        ELSE e.capital)]

RBBar ==
    /\ rb.pc = "loop"
    /\ rb.i < 1 + RBMaxBars
    /\ \E b \in BarsOver(RBPrices), atr \in RBAtrs, signal \in Signals,
          u_exit \in RBSlipFactors, u_entry \in RBSlipFactors :
          rb' = RBStep(rb, b.high, b.low, b.close, atr, signal, u_exit, u_entry)
    /\ UNCHANGED NotRB

\* "Close any remaining position": lines 341-367.  position keeps its value,
\* as the local does in the code.
RBCloseRemaining(s, u) ==
    IF s.position # 0 THEN
        LET exit_price == s.close
            gross_pnl == IF s.position > 0 THEN (exit_price - s.entry_price) * s.position
                         ELSE (s.entry_price - exit_price) * Abs(s.position)
        IN [RBClose(s, exit_price, s.i - 1, gross_pnl, "end_of_data", u)
              EXCEPT !.position = s.position]
    ELSE s

RBFinish ==
    /\ rb.pc = "loop"
    /\ \E u \in RBSlipFactors :
          LET c == RBCloseRemaining(rb, u)
          IN rb' = [c EXCEPT !.pc = "done", !.final_capital = c.capital]
    /\ UNCHANGED NotRB

RBNext == RBBar \/ RBFinish

\* Two runs of run_backtest over the same data, signals and configuration:
\* rb2 is the second run.  The bar, the ATR and the signal of an iteration
\* are the same in both; the draws of np.random.uniform are each run's own.
RBTwinBar ==
    /\ rb.pc = "loop" /\ rb2.pc = "loop"
    /\ rb.i < 1 + RBMaxBars
    /\ \E b \in BarsOver(RBPrices), atr \in RBAtrs, signal \in Signals :
          /\ \E u_exit \in RBSlipFactors, u_entry \in RBSlipFactors :
                 rb' = RBStep(rb, b.high, b.low, b.close, atr, signal, u_exit, u_entry)
          /\ \E u_exit \in RBSlipFactors, u_entry \in RBSlipFactors :
                 rb2' = RBStep(rb2, b.high, b.low, b.close, atr, signal, u_exit, u_entry)
    /\ UNCHANGED NotTWIN

RBTwinFinish ==
    /\ rb.pc = "loop" /\ rb2.pc = "loop"
    /\ \E u \in RBSlipFactors :
          LET c == RBCloseRemaining(rb, u)
          IN rb' = [c EXCEPT !.pc = "done", !.final_capital = c.capital]
    /\ \E u \in RBSlipFactors :
          LET c == RBCloseRemaining(rb2, u)
          IN rb2' = [c EXCEPT !.pc = "done", !.final_capital = c.capital]
    /\ UNCHANGED NotTWIN

RBTwinNext == RBTwinBar \/ RBTwinFinish

(***************************************************************************)
(* OptimizedPropStrategy.backtest_challenge                                *)
(*                                                                         *)
(* A challenge is run with the parameters of one configuration: base_risk  *)
(* and max_risk in thousandths, profit_target, max_daily_loss and          *)
(* max_drawdown in percent, time_limit in bars.  The signal of a bar is    *)
(* the pair (strength, direction) that get_signal_strength returns.        *)
(***************************************************************************)
\* start_idx = 30
OPStartIdx == 30

\* initial_capital, in tick x size-unit.
OPInitialCapital == 6000000

\* The defaults of the class with a time limit of two bars, and a base risk
\* of 4% with max_risk twice the base, as the parameter sweep sets it, under
\* the default challenge rules.
OPConfigs ==
    {[base_risk |-> 20, max_risk |-> 40, profit_target |-> 10, max_daily_loss |-> 5,
      max_drawdown |-> 10, time_limit |-> 2],
     [base_risk |-> 40, max_risk |-> 80, profit_target |-> 10, max_daily_loss |-> 5,
      max_drawdown |-> 10, time_limit |-> 30]}

OPPrices == {98000, 99000, 100000, 102000}

\* 0 stands for a NaN or non-positive ATR.
OPAtrs == {0, 1000, 3000}

OPSignals == {[strength |-> 0, direction |-> "None"],
              [strength |-> 100, direction |-> "LONG"],
              [strength |-> 100, direction |-> "SHORT"]}

NoResult == [passed |-> FALSE, failed |-> FALSE, reason |-> "none", profit |-> 0,
             trades |-> 0]

OPStart(cfg) ==
    [pc |-> "loop", cfg |-> cfg, i |-> OPStartIdx,
     capital |-> OPInitialCapital, start_capital |-> OPInitialCapital,
     highest_capital |-> OPInitialCapital, day_start |-> OPInitialCapital,
     position |-> 0, entry_price |-> 0, stop_loss |-> 0, take_profit |-> 0,
     trailing_stop |-> 0, position_high |-> 0,
     trades |-> <<>>, daily_equity |-> <<>>,
     close |-> 0, opens |-> <<>>, result |-> NoResult]

\* trades.append({'pnl': pnl, 'reason': reason}); exit_date is a history field.
OPClose(s, exit_price, reason) ==
    LET pnl == IF s.position > 0 THEN (exit_price - s.entry_price) * s.position
               ELSE (s.entry_price - exit_price) * Abs(s.position)
    IN [s EXCEPT !.capital = s.capital + pnl,
                 !.trades = Append(s.trades, [pnl |-> pnl, reason |-> reason,
                                              exit_price |-> exit_price,
                                              exit_date |-> s.i]),
                 !.position = 0]

\* "Manage existing position": lines 206-252.
OPManage(s, high, low, atr) ==
    IF s.position > 0 THEN
        LET position_high == Max2(s.position_high, high)
            trailing_stop == IF high > s.entry_price + atr
                             THEN Max2(s.trailing_stop, position_high - MulFrac(atr, 4, 5))
                             ELSE s.trailing_stop
            effective_stop == Max2(s.stop_loss, trailing_stop)
            m == [s EXCEPT !.position_high = position_high, !.trailing_stop = trailing_stop]
        IN IF low <= effective_stop THEN
               OPClose(m, effective_stop,
                       IF effective_stop = s.stop_loss THEN "stop" ELSE "trail")
           ELSE IF high >= s.take_profit THEN OPClose(m, s.take_profit, "tp")
           ELSE m
    ELSE IF s.position < 0 THEN
        LET position_low == IF s.position_high > 0 THEN Min2(s.position_high, low) ELSE low
            trailing_stop == IF low < s.entry_price - atr
                             THEN LET new_trail == position_low + MulFrac(atr, 4, 5)
                                  IN IF s.trailing_stop > 0
                                     THEN Min2(s.trailing_stop, new_trail) ELSE new_trail
                             ELSE s.trailing_stop
            effective_stop == IF trailing_stop > 0 THEN Min2(s.stop_loss, trailing_stop)
                              ELSE s.stop_loss
            m == [s EXCEPT !.trailing_stop = trailing_stop]
        IN IF high >= effective_stop THEN
               OPClose(m, effective_stop,
                       IF effective_stop = s.stop_loss THEN "stop" ELSE "trail")
           ELSE IF low <= s.take_profit THEN OPClose(m, s.take_profit, "tp")
           ELSE m
    ELSE s

\* effective_stop: lines 214 and 237.
OPEffectiveStop(long, stop_loss, trailing_stop) ==
    IF long THEN Max2(stop_loss, trailing_stop)
    ELSE IF trailing_stop > 0 THEN Min2(stop_loss, trailing_stop) ELSE stop_loss

\* The risk fraction of an entry, in units of 1/100000: the adaptive risk by
\* equity_ratio, scaled by 0.5 + strength / 100 * 0.5.
OPRisk(cfg, capital, start_capital, strength) ==
    LET risk == IF capital * 100 > start_capital * 105 THEN cfg.max_risk
                ELSE IF capital * 100 < start_capital * 95 THEN Div(cfg.base_risk, 2)
                ELSE cfg.base_risk
    IN Div(risk * (100 + strength), 2)

\* "Look for new entry": lines 254-286.
OPEntry(s, close, atr, sig) ==
    IF s.position = 0 /\ sig.direction # "None" THEN
        LET risk == OPRisk(s.cfg, s.capital, s.start_capital, sig.strength)
            stop_loss == IF sig.direction = "LONG" THEN close - MulFrac(atr, 6, 5)
                         ELSE close + MulFrac(atr, 6, 5)
            take_profit == IF sig.direction = "LONG" THEN close + MulFrac(atr, 5, 2)
                           ELSE close - MulFrac(atr, 5, 2)
            risk_per_unit == IF sig.direction = "LONG" THEN close - stop_loss
                             ELSE stop_loss - close
            m == [s EXCEPT !.stop_loss = stop_loss, !.take_profit = take_profit]
        IN IF risk_per_unit > 0 THEN
               LET size == Div(Div(s.capital, 100) * risk, 1000 * risk_per_unit)
               IN [m EXCEPT !.position = IF sig.direction = "LONG" THEN size ELSE -size,
                            !.entry_price = close,
                            !.trailing_stop = 0,
                            !.position_high = close,
                            !.opens = Append(s.opens, s.i)]
           ELSE m
    ELSE s

\* unrealized P&L of the position at the close: lines 289-293.
OPUnrealized(s, close) ==
    IF s.position > 0 THEN (close - s.entry_price) * s.position
    ELSE IF s.position < 0 THEN (s.entry_price - close) * Abs(s.position)
    ELSE 0

\* daily_loss < -start_capital * max_daily_loss
OPDailyLossHit(daily_loss, start_capital, max_daily_loss) ==
    daily_loss * 100 < -(start_capital * max_daily_loss)

\* current_dd > max_drawdown
OPDrawdownHitAtEqual(highest_capital, equity, start_capital, max_drawdown) ==
    (highest_capital - equity) * 100 >= start_capital * max_drawdown

OPDrawdownHit(highest_capital, equity, start_capital, max_drawdown) ==
    (highest_capital - equity) * 100 > start_capital * max_drawdown

\* current_profit >= profit_target
OPTargetHit(equity, start_capital, profit_target) ==
    (equity - start_capital) * 100 >= start_capital * profit_target

OPResult(s, passed, failed, reason) ==
    [passed |-> passed, failed |-> failed, reason |-> reason,
     profit |-> s.capital - s.start_capital, trades |-> Len(s.trades)]

\* "Check prop firm rules" and "Check if passed": lines 300-346.
OPRules(s, close) ==
    LET unrealized == OPUnrealized(s, close)
        equity == s.capital + unrealized
        t == [s EXCEPT !.daily_equity = Append(s.daily_equity, equity),
                       !.highest_capital = Max2(s.highest_capital, equity)]
    IN IF OPDailyLossHit(equity - s.day_start, s.start_capital, s.cfg.max_daily_loss) THEN
           [t EXCEPT !.pc = "done", !.result = OPResult(t, FALSE, TRUE, "Daily loss")]
       ELSE IF OPDrawdownHit(t.highest_capital, equity, s.start_capital,
                             s.cfg.max_drawdown) THEN
           [t EXCEPT !.pc = "done", !.result = OPResult(t, FALSE, TRUE, "Max drawdown")]
       ELSE IF OPTargetHit(equity, s.start_capital, s.cfg.profit_target) THEN
           LET c == IF t.position # 0
                    THEN [OPClose(t, close, "pass_exit") EXCEPT !.position = t.position]
                    ELSE t
           IN [c EXCEPT !.pc = "done", !.result = OPResult(c, TRUE, FALSE, "None")]
       ELSE t

\* One iteration of the loop.
OPStep(s, high, low, close, atr_in, sig) ==
    LET atr == WSAtr(atr_in, close)
        b == [s EXCEPT !.day_start = s.capital, !.close = close]
        m == OPManage(b, high, low, atr)
        e == OPEntry(m, close, atr, sig)
        r == OPRules(e, close)
    IN [r EXCEPT !.i = s.i + 1]

\* for i in range(start_idx, end_idx), end_idx = min(start_idx + time_limit, len(data))
OPBar ==
    /\ op.pc = "loop"
    /\ op.i < OPStartIdx + op.cfg.time_limit
    /\ op.i < OPStartIdx + MaxBars
    /\ \E b \in BarsOver(OPPrices), atr \in OPAtrs, sig \in OPSignals :
          op' = OPStep(op, b.high, b.low, b.close, atr, sig)
    /\ UNCHANGED NotOP

\* "Time's up - close position": lines 348-356.  position keeps its value,
\* as the local does in the code.
OPTimeUpCloseNever(s) == s

OPTimeUpClose(s) ==
    IF s.position # 0
    THEN [OPClose([s EXCEPT !.i = s.i - 1], s.close, "end")
            EXCEPT !.position = s.position, !.i = s.i]
    ELSE s

\* "Time's up - close position" and the final return: lines 348-368.  The
\* loop has ended: the time limit is reached or the data has no more bars.
OPTimeUp ==
    /\ op.pc = "loop"
    /\ LET c == OPTimeUpClose(op)
           passed == (c.capital - c.start_capital) * 100
                         >= c.start_capital * c.cfg.profit_target
       IN op' = [c EXCEPT !.pc = "done",
                          !.result = OPResult(c, passed, FALSE,
                                              IF passed THEN "None" ELSE "Time limit")]
    /\ UNCHANGED NotOP

OPNext == OPBar \/ OPTimeUp

(***************************************************************************)
(* PropFirmStrategy.backtest                                               *)
(*                                                                         *)
(* get_signals is run over the bars as they come: a bar whose indicators   *)
(* give a signal appends it to signals, with the bar's index, before the   *)
(* loop body of backtest runs for that bar.  The body only compares the    *)
(* index of signals[signal_idx] with i, so that a signal of a later bar    *)
(* reads as no signal at all.  equity is a history field: the capital plus *)
(* the open position's unrealized P&L at the end of each processed bar.    *)
(***************************************************************************)
PFMaxBars == 4

\* for i in range(30, len(self.data))
PFStartIdx == 30

\* initial_capital, in tick x size-unit.
PFInitialCapital == 6000000

\* max_daily_loss and max_drawdown, in percent, and the profit to pass.
PFMaxDailyLoss == 5

PFMaxDrawdown == 10

PFPassPct == 10

\* risk_per_trade in thousandths: the default and the aggressive setting.
PFRisks == {30, 40}

PFPrices == {99000, 100000, 101800}

\* 0 stands for a NaN ATR.
PFAtrs == {0, 1000}

PFDirections == {"None", "LONG", "SHORT"}

PFStart(risk_per_trade) ==
    [pc |-> "loop", risk_per_trade |-> risk_per_trade, i |-> PFStartIdx,
     capital |-> PFInitialCapital, initial_capital |-> PFInitialCapital,
     highest_capital |-> PFInitialCapital,
     position |-> 0, entry_price |-> 0, stop_loss |-> 0, take_profit |-> 0,
     trades |-> <<>>, signals |-> <<>>, signal_idx |-> 1,
     close |-> 0, opens |-> <<>>, equity |-> <<>>, result |-> NoResult]

\* One iteration of get_signals: lines 89-154.
PFGetSignal(signals, i, close, atr, direction) ==
    IF atr = 0 \/ direction = "None" THEN signals
    ELSE Append(signals,
                [idx |-> i, direction |-> direction, entry |-> close,
                 stop_loss |-> IF direction = "LONG" THEN close - atr ELSE close + atr,
                 take_profit |-> IF direction = "LONG" THEN close + 2 * atr
                                 ELSE close - 2 * atr,
                 atr |-> atr])

PFClose(s, exit_price, reason) ==
    LET pnl == IF s.position > 0 THEN (exit_price - s.entry_price) * s.position
               ELSE (s.entry_price - exit_price) * Abs(s.position)
    IN [s EXCEPT !.capital = s.capital + pnl,
                 !.trades = Append(s.trades, [pnl |-> pnl, reason |-> reason,
                                              exit_price |-> exit_price,
                                              exit_date |-> s.i]),
                 !.position = 0]

\* "Manage position": lines 183-206.
PFManage(s, high, low) ==
    IF s.position > 0 THEN
        IF low <= s.stop_loss THEN PFClose(s, s.stop_loss, "stop")
        ELSE IF high >= s.take_profit THEN PFClose(s, s.take_profit, "tp")
        ELSE s
    ELSE IF s.position < 0 THEN
        IF high >= s.stop_loss THEN PFClose(s, s.stop_loss, "stop")
        ELSE IF low <= s.take_profit THEN PFClose(s, s.take_profit, "tp")
        ELSE s
    ELSE s

\* "Check for new signal": lines 208-219.
PFEntry(s) ==
    IF s.position = 0 /\ s.signal_idx <= Len(s.signals) THEN
        LET sig == s.signals[s.signal_idx]
        IN IF sig.idx = s.i THEN
               LET risk == Abs(sig.entry - sig.stop_loss)
                   n == [s EXCEPT !.signal_idx = s.signal_idx + 1]
               IN IF risk > 0 THEN
                      LET size == Div(s.capital * s.risk_per_trade, 1000 * risk)
                      IN [n EXCEPT !.position = IF sig.direction = "LONG" THEN size
                                                ELSE -size,
                                   !.entry_price = sig.entry,
                                   !.stop_loss = sig.stop_loss,
                                   !.take_profit = sig.take_profit,
                                   !.opens = Append(s.opens, s.i)]
                  ELSE n
           ELSE s
    ELSE s

\* The used signals are left where they are.
PFSkipUsedNone(signals, signal_idx, i) == signal_idx

\* "Skip used signals": lines 221-223.
RECURSIVE PFSkipUsed(_, _, _)
PFSkipUsed(signals, signal_idx, i) ==
    IF signal_idx <= Len(signals) /\ signals[signal_idx].idx <= i
    THEN PFSkipUsed(signals, signal_idx + 1, i)
    ELSE signal_idx

PFUnrealized(s, close) ==
    IF s.position > 0 THEN (close - s.entry_price) * s.position
    ELSE IF s.position < 0 THEN (s.entry_price - close) * Abs(s.position)
    ELSE 0

PFResult(s, passed, failed, reason) ==
    [passed |-> passed, failed |-> failed, reason |-> reason,
     profit |-> s.capital - s.initial_capital, trades |-> Len(s.trades)]

\* highest_capital - capital > initial_capital * max_drawdown
PFDrawdownHit(highest_capital, capital, initial_capital) ==
    (highest_capital - capital) * 100 > initial_capital * PFMaxDrawdown

\* "Check prop firm rules": lines 228-252.
PFRules(s, day_start) ==
    LET t == [s EXCEPT !.highest_capital = Max2(s.highest_capital, s.capital)]
    IN IF (t.capital - day_start) * 100 < -(t.initial_capital * PFMaxDailyLoss) THEN
           [t EXCEPT !.pc = "done", !.result = PFResult(t, FALSE, TRUE, "Daily loss limit")]
       ELSE IF PFDrawdownHit(t.highest_capital, t.capital, t.initial_capital) THEN
           [t EXCEPT !.pc = "done", !.result = PFResult(t, FALSE, TRUE, "Max drawdown")]
       ELSE t

\* One iteration of the loop.
PFStep(s, high, low, close, atr, direction) ==
    LET b == [s EXCEPT !.signals = PFGetSignal(s.signals, s.i, close, atr, direction),
                       !.close = close]
        m == PFManage(b, high, low)
        e == PFEntry(m)
        k == [e EXCEPT !.signal_idx = PFSkipUsed(e.signals, e.signal_idx, e.i),
                       !.equity = Append(e.equity, e.capital + PFUnrealized(e, close))]
        r == PFRules(k, s.capital)
    IN [r EXCEPT !.i = s.i + 1]

PFBar ==
    /\ pf.pc = "loop"
    /\ pf.i < PFStartIdx + PFMaxBars
    /\ \E b \in BarsOver(PFPrices), atr \in PFAtrs, direction \in PFDirections :
          pf' = PFStep(pf, b.high, b.low, b.close, atr, direction)
    /\ UNCHANGED NotPF

\* "Close remaining" and the final return: lines 254-276.
PFFinish ==
    /\ pf.pc = "loop"
    /\ LET c == IF pf.position # 0
                THEN [PFClose([pf EXCEPT !.i = pf.i - 1], pf.close, "end")
                        EXCEPT !.position = pf.position, !.i = pf.i]
                ELSE pf
           passed == (c.capital - c.initial_capital) * 100 >= c.initial_capital * PFPassPct
       IN pf' = [c EXCEPT !.pc = "done", !.result = PFResult(c, passed, FALSE, "None")]
    /\ UNCHANGED NotPF

PFNext == PFBar \/ PFFinish

(***************************************************************************)
(* PropFirmChallenge.run_challenge                                         *)
(*                                                                         *)
(* A challenge is run with one configuration: the rules of the constructor *)
(* (profit_target, max_daily_loss and max_total_drawdown in percent,       *)
(* min_trading_days, time_limit_days) and the risk_per_trade argument in   *)
(* thousandths.  The signal of a bar is the value the crossover rules of   *)
(* lines 141-144 give.                                                     *)
(***************************************************************************)
CHMaxBars == 4

\* for i in range(66, ...)
CHStartIdx == 66

\* account_size, in tick x size-unit.
CHAccountSize == 6000000

\* The default rules with the risk the script runs them with, and a short
\* challenge with two trading days and a larger risk.
CHConfigs ==
    {[profit_target |-> 10, max_daily_loss |-> 5, max_total_drawdown |-> 10,
      min_trading_days |-> 4, time_limit_days |-> 30, risk_per_trade |-> 30],
     [profit_target |-> 10, max_daily_loss |-> 5, max_total_drawdown |-> 10,
      min_trading_days |-> 2, time_limit_days |-> 3, risk_per_trade |-> 50]}

CHPrices == {97000, 100000, 103000}

\* 0 stands for a NaN ATR.
CHAtrs == {0, 1000}

CHStart(cfg) ==
    [pc |-> "loop", cfg |-> cfg, i |-> CHStartIdx,
     capital |-> CHAccountSize, start_capital |-> CHAccountSize,
     highest_capital |-> CHAccountSize,
     position |-> 0, entry_price |-> 0, stop_loss |-> 0, take_profit |-> 0,
     highest |-> 0, trades |-> <<>>, daily_pnl |-> <<>>, trading_days |-> 0,
     passed |-> FALSE, failed |-> FALSE, fail_reason |-> "None", day_count |-> 0,
     close |-> 0, opens |-> <<>>, final_capital |-> 0]

\* atr = data['atr'].iloc[i] if not pd.isna(...) else close * 0.01
CHAtr(atr, close) == IF atr = 0 THEN Div(close, AtrFloorDen) ELSE atr

\* capital += pnl; trades.append(...); position = 0; trading_days += 1
CHClose(s, exit_price, reason) ==
    LET pnl == IF s.position > 0 THEN (exit_price - s.entry_price) * s.position
               ELSE (s.entry_price - exit_price) * Abs(s.position)
    IN [s EXCEPT !.capital = s.capital + pnl,
                 !.trades = Append(s.trades, [pnl |-> pnl, reason |-> reason,
                                              exit_price |-> exit_price,
                                              exit_date |-> s.i]),
                 !.position = 0,
                 !.trading_days = s.trading_days + 1]

\* "Manage position": lines 101-136.
CHManage(s, high, low, atr) ==
    IF s.position > 0 THEN
        LET highest == Max2(s.highest, high)
            trail == highest - MulFrac(atr, 3, 2)
            eff_stop == Max2(s.stop_loss, trail)
            m == [s EXCEPT !.highest = highest]
        IN IF low <= eff_stop THEN CHClose(m, eff_stop, "stop")
           ELSE IF high >= s.take_profit THEN CHClose(m, s.take_profit, "take_profit")
           ELSE m
    ELSE IF s.position < 0 THEN
        IF high >= s.stop_loss THEN CHClose(s, s.stop_loss, "stop")
        ELSE IF low <= s.take_profit THEN CHClose(s, s.take_profit, "take_profit")
        ELSE s
    ELSE s

\* "New entry": lines 138-160.
CHEntry(s, close, atr, signal) ==
    IF s.position = 0 /\ ~s.failed /\ signal # 0 THEN
        LET stop_loss == IF signal = 1 THEN close - MulFrac(atr, 3, 2)
                         ELSE close + MulFrac(atr, 3, 2)
            take_profit == IF signal = 1 THEN close + atr * 3 ELSE close - atr * 3
            risk == IF signal = 1 THEN close - stop_loss ELSE stop_loss - close
            m == [s EXCEPT !.stop_loss = stop_loss, !.take_profit = take_profit]
        IN IF risk > 0 THEN
               LET size == Div(s.capital * s.cfg.risk_per_trade, 1000 * risk)
               IN [m EXCEPT !.position = IF signal > 0 THEN size ELSE -size,
                            !.entry_price = close,
                            !.highest = close,
                            !.opens = Append(s.opens, s.i)]
           ELSE m
    ELSE s

\* profit >= self.profit_target and trading_days >= self.min_trading_days
CHPassedIgnoringDays(capital, start_capital, trading_days, cfg) ==
    (capital - start_capital) * 100 >= start_capital * cfg.profit_target

CHPassed(capital, start_capital, trading_days, cfg) ==
    /\ (capital - start_capital) * 100 >= start_capital * cfg.profit_target
    /\ trading_days >= cfg.min_trading_days

\* The daily P/L and the three checks, each ending the loop: lines 162-186.
CHRules(s, day_start_capital) ==
    LET day_pnl == s.capital - day_start_capital
        d == [s EXCEPT !.daily_pnl = Append(s.daily_pnl, day_pnl)]
        h == [d EXCEPT !.highest_capital = Max2(d.highest_capital, d.capital)]
    IN IF day_pnl * 100 < -(s.start_capital * s.cfg.max_daily_loss) THEN
           [d EXCEPT !.failed = TRUE, !.fail_reason = "Daily loss limit breached",
                     !.pc = "break"]
       ELSE IF (h.highest_capital - h.capital) * 100
                   > h.start_capital * h.cfg.max_total_drawdown THEN
           [h EXCEPT !.failed = TRUE, !.fail_reason = "Max drawdown breached",
                     !.pc = "break"]
       ELSE IF CHPassed(h.capital, h.start_capital, h.trading_days, h.cfg) THEN
           [h EXCEPT !.passed = TRUE, !.pc = "break"]
       ELSE h

\* One iteration of the loop.
CHStep(s, high, low, close, atr_in, signal) ==
    LET atr == CHAtr(atr_in, close)
        b == [s EXCEPT !.day_count = s.day_count + 1, !.close = close]
        m == CHManage(b, high, low, atr)
        e == CHEntry(m, close, atr, signal)
        r == CHRules(e, s.capital)
    IN [r EXCEPT !.i = s.i + 1]

\* for i in range(66, min(66 + self.time_limit_days, len(data)))
CHBar ==
    /\ ch.pc = "loop"
    /\ ch.i < CHStartIdx + ch.cfg.time_limit_days
    /\ ch.i < CHStartIdx + CHMaxBars
    /\ \E b \in BarsOver(CHPrices), atr \in CHAtrs, signal \in Signals :
          ch' = CHStep(ch, b.high, b.low, b.close, atr, signal)
    /\ UNCHANGED NotCH

\* "Close remaining position" and the return: lines 188-214.  The close read
\* at line 190 is that of the last bar of the window,
\* min(66 + time_limit_days - 1, len(data) - 1): the last processed bar when
\* the loop ran to its end, and after a break a bar the loop has not read
\* (or the bar of the break when that was the last one).  Its trade carries
\* exit_date -1 in that case.
CHFinish ==
    /\ ch.pc \in {"loop", "break"}
    /\ \E close \in (IF ch.pc = "break" THEN CHPrices ELSE {ch.close}) :
          LET c == IF ch.position # 0
                   THEN [CHClose([ch EXCEPT !.i = IF ch.pc = "break" THEN -1
                                                   ELSE ch.i - 1],
                                 close, "end")
                           EXCEPT !.position = ch.position, !.i = ch.i]
                   ELSE ch
          IN ch' = [c EXCEPT !.pc = "done", !.final_capital = c.capital]
    /\ UNCHANGED NotCH

CHNext == CHBar \/ CHFinish

(***************************************************************************)
(* Floating-point division and position sizing                             *)
(*                                                                         *)
(* A float is a record: a ratio num / den of integers (kind "fin"), an     *)
(* infinity (kind "inf") or a NaN (kind "nan").  A division by zero raises *)
(* ZeroDivisionError on Python numbers and gives inf or nan on numpy       *)
(* numbers, the values a pandas column holds; a call is made with either.  *)
(* fn holds one call of a function: its arguments, then its outcome.       *)
(***************************************************************************)
Fin(num, den) == [kind |-> "fin", num |-> num, den |-> den]

FInf == [kind |-> "inf", num |-> 1, den |-> 0]

FNaN == [kind |-> "nan", num |-> 0, den |-> 0]

FRaise == [kind |-> "raise", num |-> 0, den |-> 0]

\* num / den, den >= 0
FDiv(num, den, numpy) ==
    IF den # 0 THEN Fin(num, den)
    ELSE IF ~numpy THEN FRaise
    ELSE IF num = 0 THEN FNaN
    ELSE FInf

\* a < b on floats with positive denominators; a comparison with NaN is false.
FLess(a, b) ==
    IF a.kind = "nan" \/ b.kind = "nan" THEN FALSE
    ELSE IF a.kind = "inf" THEN FALSE
    ELSE IF b.kind = "inf" THEN TRUE
    ELSE a.num * b.den < b.num * a.den

\* min(a, b) of Python: b when b < a, a otherwise.
FMin(a, b) == IF FLess(b, a) THEN b ELSE a

\* max_risk_per_trade and max_position_size, in percent.
PSMaxRiskPerTrade == 2

PSMaxPositionSize == 10

PSCapitals == {100, 1000, 2000}

PSEntryPrices == {0, 990, 1000, 1010}

PSStopPrices == {500, 980, 990, 1000, 1010}

\* PositionSizer.calculate_position_size: the PositionSize returned, or the
\* exception logged and raised again.
PSCalculateNoCap(capital, entry_price, stop_loss_price, numpy) ==
    LET risk_amount == Fin(capital * PSMaxRiskPerTrade, 100)
        price_risk == Abs(entry_price - stop_loss_price)
        units == FDiv(capital * PSMaxRiskPerTrade, 100 * price_risk, numpy)
    IN IF units.kind = "raise" THEN [raised |-> TRUE, units |-> FRaise,
                                     risk_amount |-> risk_amount]
       ELSE [raised |-> FALSE, units |-> units, risk_amount |-> risk_amount]

PSCalculate(capital, entry_price, stop_loss_price, numpy) ==
    LET risk_amount == Fin(capital * PSMaxRiskPerTrade, 100)
        price_risk == Abs(entry_price - stop_loss_price)
        units == FDiv(capital * PSMaxRiskPerTrade, 100 * price_risk, numpy)
        max_units == FDiv(capital * PSMaxPositionSize, 100 * entry_price, numpy)
    IN IF units.kind = "raise" \/ max_units.kind = "raise"
       THEN [raised |-> TRUE, units |-> FRaise, risk_amount |-> risk_amount]
       ELSE [raised |-> FALSE, units |-> FMin(units, max_units),
             risk_amount |-> risk_amount]

PSStart(capital, entry_price, stop_loss_price, numpy) ==
    [pc |-> "call", f |-> "PositionSizer.calculate_position_size",
     capital |-> capital, entry_price |-> entry_price,
     stop_loss_price |-> stop_loss_price, numpy |-> numpy]

PSCall ==
    /\ fn.pc = "call"
    /\ fn.f = "PositionSizer.calculate_position_size"
    /\ LET r == PSCalculate(fn.capital, fn.entry_price, fn.stop_loss_price, fn.numpy)
       IN fn' = [pc |-> IF r.raised THEN "raise" ELSE "return", f |-> fn.f,
                 capital |-> fn.capital, entry_price |-> fn.entry_price,
                 stop_loss_price |-> fn.stop_loss_price, numpy |-> fn.numpy,
                 result |-> r]
    /\ UNCHANGED NotFN

(***************************************************************************)
(* FinalPropStrategy: the signal record and the entry step                 *)
(***************************************************************************)
\* RISK_PER_TRADE in percent; ATR_STOP_LOSS = 0.8 and ATR_TAKE_PROFIT = 1.5
\* as ratios.
FPRiskPerTrade == 8

FPStopNum == 4

FPStopDen == 5

FPTpNum == 3

FPTpDen == 2

\* trail = 99999, the "not yet trailing" value of a short.
FPNoTrailShort == 99999

FPCloses == {1000, 2000}

\* ATR values of the column; 0 is an ATR of 0.0 here, as a flat stretch of
\* bars gives it.
FPAtrs == {0, 10, 20}

FPDirections == {"LONG", "SHORT"}

\* The record _get_signal_at returns for a direction: lines 333-346.
FPSignal(direction, close, atr) ==
    [direction |-> direction, entry |-> close,
     stop_loss |-> IF direction = "LONG" THEN close - MulFrac(atr, FPStopNum, FPStopDen)
                   ELSE close + MulFrac(atr, FPStopNum, FPStopDen),
     take_profit |-> IF direction = "LONG" THEN close + MulFrac(atr, FPTpNum, FPTpDen)
                     ELSE close - MulFrac(atr, FPTpNum, FPTpDen)]

\* "New entry", lines 237-253: the locals it sets.  risk is a numpy float,
\* taken from the data frame.
FPEntry(capital, signal) ==
    LET risk == IF signal.direction = "LONG" THEN signal.entry - signal.stop_loss
                ELSE signal.stop_loss - signal.entry
        size == FDiv(capital * FPRiskPerTrade, 100 * risk, TRUE)
    IN [sl |-> signal.stop_loss, tp |-> signal.take_profit, size |-> size,
        long |-> signal.direction = "LONG", entry |-> signal.entry,
        trail |-> IF signal.direction = "LONG" THEN 0 ELSE FPNoTrailShort]

FPEntryStart(capital, direction, close, atr) ==
    [pc |-> "call", f |-> "FinalPropStrategy.backtest_challenge: new entry",
     capital |-> capital, signal |-> FPSignal(direction, close, atr)]

FPEntryCall ==
    /\ fn.pc = "call"
    /\ fn.f = "FinalPropStrategy.backtest_challenge: new entry"
    /\ fn' = [pc |-> "return", f |-> fn.f, capital |-> fn.capital, signal |-> fn.signal,
              result |-> FPEntry(fn.capital, fn.signal)]
    /\ UNCHANGED NotFN

(***************************************************************************)
(* TrendMomentumStrategy: calculate_position_size and the entry of backtest *)
(***************************************************************************)
\* risk_per_trade = 0.02 and the 10 % cap, in percent; atr_sl_multiplier =
\* 1.5 and atr_tp_multiplier = 3.0 as ratios.
TMRiskPct == 2

TMMaxPosPct == 10

TMSlNum == 3

TMSlDen == 2

TMTpMult == 3

\* A NaN in the atr column.
TMNaN == -1

\* ATR values of the column: NaN, 0.0 and two positive values.
TMAtrs == {TMNaN, 0, 10, 20}

TMPrices == {1000, 2000}

\* calculate_position_size for a signal that is not 0; capital (prev_capital)
\* is a numpy float read from the capital series.  The result is the size
\* without its sign.
TMCalculatePositionSize(signal, current_price, capital, atr_in) ==
    LET \* atr = current_price * 0.01 when atr is None or NaN: in hundredths
        atr100 == IF atr_in = TMNaN THEN current_price ELSE atr_in * 100
        \* risk_amount / stop_distance = capital * 0.02 / (atr * 1.5)
        position_size == FDiv(capital * TMRiskPct * TMSlDen, atr100 * TMSlNum, TRUE)
        max_position == Fin(capital * TMMaxPosPct, 100 * current_price)
    IN FMin(position_size, max_position)

\* x - atr * k for the raw ATR of the bar: NaN when the ATR is NaN.
TMLevel(x, atr_in, num, den) ==
    IF atr_in = TMNaN THEN FNaN ELSE Fin(x * den + atr_in * num, den)

\* "New signal processing": lines 323-348, the locals the entry sets.
TMEntry(signal, current_price, prev_capital, current_atr) ==
    [current_position |-> TMCalculatePositionSize(signal, current_price,
                                                  prev_capital, current_atr),
     long |-> signal > 0,
     entry_price |-> current_price,
     stop_loss |-> IF signal > 0 THEN TMLevel(current_price, current_atr, -TMSlNum, TMSlDen)
                   ELSE TMLevel(current_price, current_atr, TMSlNum, TMSlDen),
     take_profit |-> IF signal > 0 THEN TMLevel(current_price, current_atr, TMTpMult, 1)
                     ELSE TMLevel(current_price, current_atr, -TMTpMult, 1)]

TMEntryStart(signal, current_price, prev_capital, current_atr) ==
    [pc |-> "call", f |-> "TrendMomentumStrategy.backtest: new signal",
     signal |-> signal, current_price |-> current_price,
     prev_capital |-> prev_capital, current_atr |-> current_atr]

TMEntryCall ==
    /\ fn.pc = "call"
    /\ fn.f = "TrendMomentumStrategy.backtest: new signal"
    /\ fn' = [pc |-> "return", f |-> fn.f, signal |-> fn.signal,
              current_price |-> fn.current_price, prev_capital |-> fn.prev_capital,
              current_atr |-> fn.current_atr,
              result |-> TMEntry(fn.signal, fn.current_price, fn.prev_capital,
                                 fn.current_atr)]
    /\ UNCHANGED NotFN

SizingNext == PSCall \/ FPEntryCall \/ TMEntryCall

(***************************************************************************)
(* Signal generators                                                       *)
(***************************************************************************)
\* A NaN in the atr column.
FPNaN == -1

\* Rows of the data frame of FinalPropStrategy: the columns _get_signal_at
\* reads.
FPRows == [ema_3 : {99, 101}, ema_8 : {100}, macd : {-1, 1}, macd_signal : {0},
           rsi : {10, 50, 90}, close : {1000, 1010}, atr : {FPNaN, 10}]

\* Rows after the bar the signal is computed for.
FPLaterRows == {r \in FPRows : r.rsi = 50 /\ r.atr = 10 /\ r.ema_3 = r.macd + 100}

\* The indices of the window of the feed the model keeps.
FPIndices == 0 .. 2

NoSignal == [direction |-> "None", entry |-> 0, stop_loss |-> 0, take_profit |-> 0]

\* The three rules of _get_signal_at, lines 318-331: what each one sets.
FPEmaRule(prev, cur) ==
    IF cur.ema_3 > cur.ema_8 /\ prev.ema_3 <= prev.ema_8 THEN "LONG"
    ELSE IF cur.ema_3 < cur.ema_8 /\ prev.ema_3 >= prev.ema_8 THEN "SHORT"
    ELSE "None"

FPMacdRule(prev, cur) ==
    IF cur.macd > cur.macd_signal /\ prev.macd <= prev.macd_signal THEN "LONG"
    ELSE IF cur.macd < cur.macd_signal /\ prev.macd >= prev.macd_signal THEN "SHORT"
    ELSE "None"

FPRsiRule(prev, cur) ==
    IF cur.rsi < 20 /\ cur.close > prev.close THEN "LONG"
    ELSE IF cur.rsi > 80 /\ cur.close < prev.close THEN "SHORT"
    ELSE "None"

FPRules(prev, cur) == {FPEmaRule(prev, cur), FPMacdRule(prev, cur), FPRsiRule(prev, cur)}

\* Lines 297-348 for the rows at i-1 and i.
FPSignalFrom(prev, cur) ==
    IF cur.atr = FPNaN THEN NoSignal
    ELSE LET long == "LONG" \in FPRules(prev, cur)
             short == "SHORT" \in FPRules(prev, cur)
         IN IF long THEN FPSignal("LONG", cur.close, cur.atr)
            ELSE IF short THEN FPSignal("SHORT", cur.close, cur.atr)
            ELSE NoSignal

FPGetSignalAtNext(data, i) ==
    IF i < 1 THEN NoSignal ELSE FPSignalFrom(data[i], data[i + 1])

\* _get_signal_at(i) on the data frame data.
FPGetSignalAt(data, i) ==
    IF i < 1 THEN NoSignal ELSE FPSignalFrom(data[i - 1], data[i])

\* A call of _get_signal_at(i) on a feed, and on an other feed that agrees
\* with it on the indices <= i.
FPSignalStart(data, other, i) ==
    [pc |-> "call", f |-> "FinalPropStrategy._get_signal_at",
     data |-> data, other |-> other, i |-> i]

FPSignalCall ==
    /\ fn.pc = "call"
    /\ fn.f = "FinalPropStrategy._get_signal_at"
    /\ fn' = [pc |-> "return", f |-> fn.f, data |-> fn.data, other |-> fn.other,
              i |-> fn.i,
              result |-> FPGetSignalAt(fn.data, fn.i),
              other_result |-> FPGetSignalAt(fn.other, fn.i)]
    /\ UNCHANGED NotFN

\* TrendMomentumStrategy: rsi_oversold and rsi_overbought.
TMRsiOversold == 35

TMRsiOverbought == 65

\* Rows of the data frame of TrendMomentumStrategy: the columns
\* generate_signals reads.
TMRows == [close : {990, 1010}, ema_trend : {1000}, ema_fast : {99, 101},
           ema_slow : {100}, rsi : {30, 50, 70}, macd_hist : {-1, 1}]

\* long_signal of generate_signals at a row, prev being the shifted row.
TMLongSignal(prev, cur) ==
    LET uptrend == cur.close > cur.ema_trend \/ cur.ema_fast > cur.ema_slow
        ema_cross_up == cur.ema_fast > cur.ema_slow /\ prev.ema_fast <= prev.ema_slow
        rsi_buy == cur.rsi > TMRsiOversold /\ prev.rsi <= TMRsiOversold
        macd_cross_up == cur.macd_hist > 0 /\ prev.macd_hist <= 0
    IN (ema_cross_up \/ rsi_buy \/ macd_cross_up) /\ uptrend

\* short_signal of generate_signals.
TMShortSignal(prev, cur) ==
    LET downtrend == cur.close < cur.ema_trend \/ cur.ema_fast < cur.ema_slow
        ema_cross_down == cur.ema_fast < cur.ema_slow /\ prev.ema_fast >= prev.ema_slow
        rsi_sell == cur.rsi < TMRsiOverbought /\ prev.rsi >= TMRsiOverbought
        macd_cross_down == cur.macd_hist < 0 /\ prev.macd_hist >= 0
    IN (ema_cross_down \/ rsi_sell \/ macd_cross_down) /\ downtrend

\* signals[long_signal] = 1, then signals[short_signal] = -1: the entry of
\* the series at a row.
TMSignal(prev, cur) ==
    LET after_long == IF TMLongSignal(prev, cur) THEN 1 ELSE 0
    IN IF TMShortSignal(prev, cur) THEN -1 ELSE after_long

TMSignalStart(prev, cur) ==
    [pc |-> "call", f |-> "TrendMomentumStrategy.generate_signals",
     prev |-> prev, cur |-> cur]

TMSignalCall ==
    /\ fn.pc = "call"
    /\ fn.f = "TrendMomentumStrategy.generate_signals"
    /\ fn' = [pc |-> "return", f |-> fn.f, prev |-> fn.prev, cur |-> fn.cur,
              result |-> TMSignal(fn.prev, fn.cur)]
    /\ UNCHANGED NotFN

\* WorkingStrategy: the RSI limits of generate_signals.
WSRsiOverbought == 70

WSRsiOversold == 30

\* Rows of the data frame of WorkingStrategy: the columns the crossover
\* columns and generate_signals read.
WSRows == [ema_8 : {99, 101}, ema_21 : {100}, ema_55 : {1000},
           rsi : {20, 50, 80}, close : {990, 1010}]

WSLaterRows == {r \in WSRows : r.rsi = 50 /\ r.close = 1010}

\* The columns ema_cross_up and ema_cross_down at a row: lines 60-67.
WSEmaCrossUp(prev, cur) == cur.ema_8 > cur.ema_21 /\ prev.ema_8 <= prev.ema_21

WSEmaCrossDown(prev, cur) == cur.ema_8 < cur.ema_21 /\ prev.ema_8 >= prev.ema_21

\* The body of the loop of generate_signals: lines 74-86.
WSSignalFrom(prev, cur) ==
    LET after_long == IF WSEmaCrossUp(prev, cur) /\ cur.close > cur.ema_55
                         /\ cur.rsi < WSRsiOverbought THEN 1 ELSE 0
    IN IF WSEmaCrossDown(prev, cur) /\ cur.close < cur.ema_55 /\ cur.rsi > WSRsiOversold
       THEN -1 ELSE after_long

\* The entry at index i of the series generate_signals returns.
WSSignalAt(data, i) ==
    IF i < WSWarmUp THEN 0 ELSE WSSignalFrom(data[i - 1], data[i])

WSSignalStart(data, other, i) ==
    [pc |-> "call", f |-> "WorkingStrategy.generate_signals",
     data |-> data, other |-> other, i |-> i]

WSSignalCall ==
    /\ fn.pc = "call"
    /\ fn.f = "WorkingStrategy.generate_signals"
    /\ fn' = [pc |-> "return", f |-> fn.f, data |-> fn.data, other |-> fn.other,
              i |-> fn.i,
              result |-> WSSignalAt(fn.data, fn.i),
              other_result |-> WSSignalAt(fn.other, fn.i)]
    /\ UNCHANGED NotFN

SignalsNext == FPSignalCall \/ TMSignalCall \/ WSSignalCall

(***************************************************************************)
(* Metrics calculators                                                     *)
(***************************************************************************)
\* The longest trade list and equity series of a call.
MTMaxTrades == 3

MTMaxEquity == 3

MTInitialCapital == 1000

\* The pnl (net_pnl) column of the trades, and the values of the equity
\* series.
MTPnls == {-100, 0, 150}

MTEquities == {900, 1000, 1100}

SeqsUpTo(S, n) == UNION {[1 .. k -> S] : k \in 0 .. n}

FZeroVal == Fin(0, 1)

\* abs(x) of a float.
FAbs(x) == [x EXCEPT !.num = Abs(x.num)]

\* x * 100 of a float.
FTimes100(x) == [x EXCEPT !.num = x.num * 100]

\* series.expanding().max() at position k.
RollingMax(equity, k) ==
    CHOOSE m \in {equity[j] : j \in 1 .. k} : \A j \in 1 .. k : equity[j] <= m

\* ((equity - rolling_max) / rolling_max).min()
MinDrawdown(equity) ==
    LET drawdowns == {Fin(equity[k] - RollingMax(equity, k), RollingMax(equity, k)) :
                         k \in DOMAIN equity}
    IN CHOOSE x \in drawdowns : \A y \in drawdowns : ~FLess(y, x)

\* The trades with a positive (negative) value in the column.
Winners(trades, field) == SelectSeq(trades, LAMBDA t : t[field] > 0)

Losers(trades, field) == SelectSeq(trades, LAMBDA t : t[field] < 0)

\* WorkingStrategy._calculate_metrics: lines 278-340.
WSCalculateMetrics(trades, equity, final_capital) ==
    LET winners == Winners(trades, "pnl")
        losers == Losers(trades, "pnl")
        gross_profit == IF Len(winners) > 0 THEN SumPnl(winners, "pnl") ELSE 0
        gross_loss == IF Len(losers) > 0 THEN Abs(SumPnl(losers, "pnl")) ELSE 0
        metrics == [final_capital |-> final_capital,
                    net_profit |-> final_capital - MTInitialCapital,
                    total_trades |-> Len(trades),
                    winning_trades |-> 0, losing_trades |-> 0,
                    win_rate |-> FZeroVal, profit_factor |-> FZeroVal,
                    max_drawdown_pct |-> FZeroVal,
                    gross_profit |-> 0, gross_loss |-> 0]
    IN IF trades = <<>> THEN metrics
       ELSE [metrics EXCEPT
               !.winning_trades = Len(winners),
               !.losing_trades = Len(losers),
               !.win_rate = Fin(Len(winners), Len(trades)),
               !.gross_profit = gross_profit,
               !.gross_loss = gross_loss,
               !.profit_factor = IF gross_loss > 0 THEN Fin(gross_profit, gross_loss)
                                 ELSE IF gross_profit > 0 THEN FInf ELSE FZeroVal,
               !.max_drawdown_pct = IF Len(equity) > 0
                                    THEN FTimes100(FAbs(MinDrawdown(equity)))
                                    ELSE FZeroVal]

\* AdaptiveStrategy._calculate_metrics: lines 383-444.
ASCalculateMetrics(trades, equity, final_capital) ==
    LET winners == Winners(trades, "pnl")
        losers == Losers(trades, "pnl")
        gross_profit == IF Len(winners) > 0 THEN SumPnl(winners, "pnl") ELSE 0
        gross_loss == IF Len(losers) > 0 THEN Abs(SumPnl(losers, "pnl")) ELSE 0
        base_metrics == [final_capital |-> final_capital,
                         net_profit |-> final_capital - MTInitialCapital,
                         total_trades |-> Len(trades),
                         winning_trades |-> 0, losing_trades |-> 0,
                         win_rate |-> FZeroVal, profit_factor |-> FZeroVal,
                         max_drawdown_pct |-> FZeroVal,
                         gross_profit |-> 0, gross_loss |-> 0]
    IN IF trades = <<>> THEN base_metrics
       ELSE [base_metrics EXCEPT
               !.winning_trades = Len(winners),
               !.losing_trades = Len(losers),
               !.win_rate = Fin(Len(winners), Len(trades)),
               !.gross_profit = gross_profit,
               !.gross_loss = gross_loss,
               !.profit_factor = IF gross_loss > 0 THEN Fin(gross_profit, gross_loss)
                                 ELSE FZeroVal,
               !.max_drawdown_pct = IF Len(equity) > 0
                                    THEN FTimes100(FAbs(MinDrawdown(equity)))
                                    ELSE FZeroVal]

RBCalculateMetricsNoEmptyCase(trades, equity, final_capital) ==
    LET winning_trades == Winners(trades, "net_pnl")
        losing_trades == Losers(trades, "net_pnl")
        gross_profit == SumPnl(winning_trades, "net_pnl")
        gross_loss == Abs(SumPnl(losing_trades, "net_pnl"))
    IN [final_capital |-> final_capital,
        net_profit |-> final_capital - MTInitialCapital,
        total_trades |-> Len(trades),
        winning_trades |-> Len(winning_trades),
        losing_trades |-> Len(losing_trades),
        win_rate |-> IF Len(trades) > 0 THEN Fin(Len(winning_trades), Len(trades))
                     ELSE FZeroVal,
        profit_factor |-> IF gross_loss > 0 THEN Fin(gross_profit, gross_loss) ELSE FInf,
        max_drawdown |-> MinDrawdown(equity),
        max_drawdown_pct |-> FTimes100(MinDrawdown(equity)),
        gross_profit |-> gross_profit, gross_loss |-> gross_loss]

\* RealisticBacktester._calculate_metrics: lines 373-495.
RBCalculateMetrics(trades, equity, final_capital) ==
    LET winning_trades == Winners(trades, "net_pnl")
        losing_trades == Losers(trades, "net_pnl")
        gross_profit == IF Len(winning_trades) > 0 THEN SumPnl(winning_trades, "net_pnl")
                        ELSE 0
        gross_loss == IF Len(losing_trades) > 0 THEN Abs(SumPnl(losing_trades, "net_pnl"))
                      ELSE 0
        max_drawdown == MinDrawdown(equity)
    IN IF trades = <<>> THEN
           [final_capital |-> final_capital, net_profit |-> 0, total_trades |-> 0,
            winning_trades |-> 0, losing_trades |-> 0,
            win_rate |-> FZeroVal, profit_factor |-> FZeroVal,
            max_drawdown |-> FZeroVal, max_drawdown_pct |-> FZeroVal,
            gross_profit |-> 0, gross_loss |-> 0]
       ELSE
           [final_capital |-> final_capital,
            net_profit |-> final_capital - MTInitialCapital,
            total_trades |-> Len(trades),
            winning_trades |-> Len(winning_trades),
            losing_trades |-> Len(losing_trades),
            win_rate |-> Fin(Len(winning_trades), Len(trades)),
            profit_factor |-> IF gross_loss > 0 THEN Fin(gross_profit, gross_loss)
                              ELSE FInf,
            max_drawdown |-> max_drawdown,
            max_drawdown_pct |-> FTimes100(max_drawdown),
            gross_profit |-> gross_profit, gross_loss |-> gross_loss]

\* The calculators, by the class they belong to.
MTCalculators == {"WorkingStrategy", "AdaptiveStrategy", "RealisticBacktester"}

\* The name of the profit-and-loss column of the trades of a class.
MTField(class) == IF class = "RealisticBacktester" THEN "net_pnl" ELSE "pnl"

MTStart(class, pnls, equity) ==
    [pc |-> "call", f |-> "_calculate_metrics", class |-> class,
     trades |-> [k \in DOMAIN pnls |->
                    IF class = "RealisticBacktester" THEN [net_pnl |-> pnls[k]]
                    ELSE [pnl |-> pnls[k]]],
     equity |-> equity,
     final_capital |-> MTInitialCapital + SumPnl([k \in DOMAIN pnls |-> [pnl |-> pnls[k]]], "pnl")]

MTCalculate(class, trades, equity, final_capital) ==
    IF class = "WorkingStrategy" THEN WSCalculateMetrics(trades, equity, final_capital)
    ELSE IF class = "AdaptiveStrategy" THEN ASCalculateMetrics(trades, equity, final_capital)
    ELSE RBCalculateMetrics(trades, equity, final_capital)

MTCall ==
    /\ fn.pc = "call"
    /\ fn.f = "_calculate_metrics"
    /\ fn' = [pc |-> "return", f |-> fn.f, class |-> fn.class, trades |-> fn.trades,
              equity |-> fn.equity, final_capital |-> fn.final_capital,
              result |-> MTCalculate(fn.class, fn.trades, fn.equity, fn.final_capital)]
    /\ UNCHANGED NotFN

(***************************************************************************)
(* simulate_real_trading (scripts/hard_truth_100.py)                       *)
(*                                                                         *)
(* Prices are in cents, sizes in hundredths of an ounce (min_lot = 0.01 is *)
(* one unit), money in hundredths of a cent.  The entry signal of a bar    *)
(* (the crossover, trend and RSI conditions) is an input.  ATR inputs are  *)
(* NaN or positive.                                                        *)
(***************************************************************************)
\* Number of bars from index 66 on that a simulation may process.
HTMaxBars == 3

HTStartIdx == 66

\* spread_cost = 0.30 and commission = 0.07 dollars
HTSpreadCost == 3000

HTCommission == 700

\* risk_amount = capital * 0.02
HTRiskPct == 2

\* margin_required + entry_cost > capital * 0.9, in tenths
HTMarginTenths == 9

\* margin_required < capital * 0.5 = capital / 2
HTMinLotDen == 2

\* initial_capital (100, 10, 30 and 0.60 dollars) and leverage of a call.
HTConfigs == {[initial_capital |-> 1000000, leverage |-> 100],
              [initial_capital |-> 100000, leverage |-> 100],
              [initial_capital |-> 300000, leverage |-> 1],
              [initial_capital |-> 6000, leverage |-> 100]}

HTPrices == {196000, 200000, 207000}

\* 0 stands for a NaN ATR.
HTAtrs == {0, 5000}

HTStart(cfg) ==
    [pc |-> "loop", cfg |-> cfg, i |-> HTStartIdx, capital |-> cfg.initial_capital,
     position |-> 0, entry_price |-> 0, stop_loss |-> 0, take_profit |-> 0,
     highest |-> 0, trades |-> <<>>, skipped_signals |-> 0, margin_rejections |-> 0,
     close |-> 0, opens |-> <<>>, result |-> NoResult]

\* atr = data['atr'].iloc[i] if not pd.isna(...) else close * 0.01
HTAtr(atr, close) == IF atr = 0 THEN Div(close, AtrFloorDen) ELSE atr

\* The booking of an exit: lines 76-92, 95-111 and 167-183.
HTClose(s, exit_price, reason) ==
    LET gross_pnl == (exit_price - s.entry_price) * s.position
        exit_cost == HTSpreadCost + HTCommission
        net_pnl == gross_pnl - exit_cost
    IN [s EXCEPT !.capital = s.capital + net_pnl,
                 !.trades = Append(s.trades,
                                   [side |-> "long", entry |-> s.entry_price,
                                    exit |-> exit_price, size_oz |-> s.position,
                                    gross_pnl |-> gross_pnl, costs |-> exit_cost,
                                    net_pnl |-> net_pnl, reason |-> reason,
                                    exit_date |-> s.i]),
                 !.position = 0]

\* "Manage existing position": lines 68-116.
HTManage(s, high, low, atr) ==
    IF s.position > 0 THEN
        LET highest == Max2(s.highest, high)
            trail == highest - MulFrac(atr, 3, 2)
            eff_stop == Max2(s.stop_loss, trail)
            m == [s EXCEPT !.highest = highest]
        IN IF low <= eff_stop THEN HTClose(m, eff_stop, "stop")
           ELSE IF high >= s.take_profit THEN HTClose(m, s.take_profit, "take_profit")
           ELSE m
    ELSE s

\* margin_required + entry_cost > capital * 0.9, with
\* margin_required = min_size_oz * close / leverage
HTMarginRejected(capital, close, leverage) ==
    (close + (HTSpreadCost + HTCommission) * leverage) * 10
        > capital * HTMarginTenths * leverage

HTRejectCharged(m) ==
    [m EXCEPT !.margin_rejections = m.margin_rejections + 1,
              !.capital = m.capital - (HTSpreadCost + HTCommission)]

\* margin_rejections += 1; continue
HTReject(m) == [m EXCEPT !.margin_rejections = m.margin_rejections + 1]

\* "New entry": lines 118-163.  A rejected or skipped signal ends the
\* iteration ("continue").
HTEntry(s, close, atr, signal) ==
    IF s.position = 0 /\ signal = 1 THEN
        LET stop_loss == close - MulFrac(atr, 3, 2)
            take_profit == close + atr * 3
            risk_per_unit == close - stop_loss
            m == [s EXCEPT !.stop_loss = stop_loss, !.take_profit = take_profit]
            entry_cost == HTSpreadCost + HTCommission
            open(size) == [m EXCEPT !.position = size,
                                    !.entry_price = close,
                                    !.highest = close,
                                    !.capital = m.capital - entry_cost,
                                    !.opens = Append(m.opens, m.i)]
        IN IF HTMarginRejected(s.capital, close, s.cfg.leverage) THEN
               HTReject(m)
           ELSE IF s.capital * HTRiskPct < 100 * risk_per_unit THEN
               \* ideal_size_oz < min_size_oz
               IF close * HTMinLotDen < s.capital * s.cfg.leverage
               THEN open(1)
               ELSE [m EXCEPT !.skipped_signals = m.skipped_signals + 1]
           ELSE open(Max2(1, RoundHalfEven(s.capital * HTRiskPct, 100 * risk_per_unit)))
    ELSE s

\* One iteration of the loop.
HTStep(s, high, low, close, atr_in, signal) ==
    LET atr == HTAtr(atr_in, close)
        b == [s EXCEPT !.close = close]
        m == HTManage(b, high, low, atr)
        e == HTEntry(m, close, atr, signal)
    IN [e EXCEPT !.i = s.i + 1]

HTBar ==
    /\ ht.pc = "loop"
    /\ ht.i < HTStartIdx + HTMaxBars
    /\ \E b \in BarsOver(HTPrices), atr \in HTAtrs, signal \in Signals :
          ht' = HTStep(ht, b.high, b.low, b.close, atr, signal)
    /\ UNCHANGED NotHT

\* "Close remaining position" and the returned record: lines 165-193.
HTFinish ==
    /\ ht.pc = "loop"
    /\ LET c == IF ht.position # 0
                THEN [HTClose([ht EXCEPT !.i = ht.i - 1], ht.close, "end")
                        EXCEPT !.position = ht.position, !.i = ht.i]
                ELSE ht
       IN ht' = [c EXCEPT !.pc = "done",
                          !.result = [initial |-> c.cfg.initial_capital,
                                      final |-> c.capital,
                                      net_pnl |-> c.capital - c.cfg.initial_capital,
                                      trades |-> c.trades,
                                      skipped |-> c.skipped_signals,
                                      margin_rejected |-> c.margin_rejections]]
    /\ UNCHANGED NotHT

HTNext == HTBar \/ HTFinish

(***************************************************************************)
(* FinalPropStrategy.backtest_challenge                                    *)
(*                                                                         *)
(* Prices and ATR values are in ticks, sizes in units, money in tick x     *)
(* unit.  A bar brings its high, low, close and ATR and the record that    *)
(* _get_signal_at returns for it.  The loop is followed for entries of a   *)
(* finite size: the size of an entry on a bar whose ATR is 0.0 is the      *)
(* subject of FPEntry above.                                               *)
(***************************************************************************)
\* range(25, ...)
FPStartIdx == 25

\* Number of bars the data frame holds after the warm-up.
FPMaxBars == 3

\* initial_capital
FPInitialCapital == 1000000

\* ATR_TRAILING = 0.5
FPTrailDen == 2

FPBarPrices == {990, 1000, 1010, 1030}

\* ATR values of a bar of the loop; FPNaN is a NaN of the column.
FPBarAtrs == {FPNaN, 0, 10, 20}

FPStart ==
    [pc |-> "loop", i |-> FPStartIdx,
     capital |-> FPInitialCapital, start |-> FPInitialCapital,
     highest |-> FPInitialCapital,
     position |-> 0, entry |-> 0, sl |-> 0, tp |-> 0, trail |-> 0,
     trades |-> <<>>, equity_curve |-> <<>>,
     eff_sl |-> 0, managed |-> FALSE, moved |-> FALSE, opens |-> <<>>,
     result |-> NoResult]

\* atr = self.data['atr'].iloc[i] if not pd.isna(...) else close * 0.01
FPAtr(atr_in, close) == IF atr_in = FPNaN THEN Div(close, AtrFloorDen) ELSE atr_in

\* capital += pnl; trades.append({'pnl': pnl, 'type': type}); position = 0.
\* exit_price is a history field.
FPClose(s, exit_price, type) ==
    LET pnl == IF s.position > 0 THEN (exit_price - s.entry) * s.position
               ELSE (s.entry - exit_price) * Abs(s.position)
    IN [s EXCEPT !.capital = s.capital + pnl,
                 !.trades = Append(s.trades, [pnl |-> pnl, type |-> type,
                                              exit_price |-> exit_price]),
                 !.position = 0]

\* The price has moved one ATR in favour on this bar: lines 201 and 217.
FPMoved(s, high, low, atr) ==
    IF s.position > 0 THEN high > s.entry + atr ELSE low < s.entry - atr

\* trail after the bar: lines 201-202 and 217-218.
FPTrailAlways(s, high, low, atr) ==
    IF s.position > 0 THEN Max2(s.trail, high - Div(atr, FPTrailDen))
    ELSE Min2(IF s.trail > 0 THEN s.trail ELSE FPNoTrailShort,
              low + Div(atr, FPTrailDen))

FPTrailNotKept(s, high, low, atr) ==
    IF s.position > 0 THEN
        IF high > s.entry + atr THEN high - Div(atr, FPTrailDen) ELSE 0
    ELSE
        IF low < s.entry - atr THEN low + Div(atr, FPTrailDen) ELSE FPNoTrailShort

FPTrail(s, high, low, atr) ==
    IF s.position > 0 THEN
        IF high > s.entry + atr THEN Max2(s.trail, high - Div(atr, FPTrailDen))
        ELSE s.trail
    ELSE
        IF low < s.entry - atr
        THEN Min2(IF s.trail > 0 THEN s.trail ELSE FPNoTrailShort,
                  low + Div(atr, FPTrailDen))
        ELSE s.trail

\* eff_sl: lines 203 and 219.
FPEffSl(long, sl, trail) ==
    IF long THEN Max2(sl, trail)
    ELSE IF trail > 0 THEN Min2(sl, trail) ELSE sl

\* "Manage position": lines 199-230.  eff_sl, managed and moved are history
\* fields: the effective stop of the bar, whether the position has been
\* through a bar, and whether one of its bars met the one-ATR condition.
FPManage(s, high, low, atr) ==
    IF s.position # 0 THEN
        LET long == s.position > 0
            trail == FPTrail(s, high, low, atr)
            eff_sl == FPEffSl(long, s.sl, trail)
            m == [s EXCEPT !.trail = trail, !.eff_sl = eff_sl, !.managed = TRUE,
                           !.moved = s.moved \/ FPMoved(s, high, low, atr)]
        IN IF long THEN
               IF low <= eff_sl THEN FPClose(m, eff_sl, "stop")
               ELSE IF high >= s.tp THEN FPClose(m, s.tp, "tp")
               ELSE m
           ELSE
               IF high >= eff_sl THEN FPClose(m, eff_sl, "stop")
               ELSE IF low <= s.tp THEN FPClose(m, s.tp, "tp")
               ELSE m
    ELSE s

\* "New entry": lines 232-253.  signal is NoSignal or the record of
\* _get_signal_at.
FPOpen(s, signal) ==
    IF s.position = 0 /\ signal # NoSignal THEN
        LET long == signal.direction = "LONG"
            risk == IF long THEN signal.entry - signal.stop_loss
                    ELSE signal.stop_loss - signal.entry
            size == Div(s.capital * FPRiskPerTrade, 100 * risk)
        IN [s EXCEPT !.sl = signal.stop_loss, !.tp = signal.take_profit,
                     !.position = IF long THEN size ELSE -size,
                     !.entry = signal.entry,
                     !.trail = IF long THEN 0 ELSE FPNoTrailShort,
                     !.managed = FALSE, !.moved = FALSE,
                     !.opens = Append(s.opens, s.i)]
    ELSE s

\* "Track equity": lines 255-260.
FPUnrealized(s, close) ==
    IF s.position > 0 THEN (close - s.entry) * s.position
    ELSE IF s.position < 0 THEN (s.entry - close) * Abs(s.position)
    ELSE 0

\* "Check rules": lines 262-273.
FPRulesCheck(s, close) ==
    LET equity == s.capital + FPUnrealized(s, close)
        t == [s EXCEPT !.equity_curve = Append(s.equity_curve, equity),
                       !.highest = Max2(s.highest, equity)]
    IN IF (t.highest - equity) * 10 > s.start THEN
           [t EXCEPT !.pc = "done",
                     !.result = [passed |-> FALSE, failed |-> TRUE, reason |-> "Drawdown",
                                 profit |-> s.capital - s.start, trades |-> Len(s.trades)]]
       ELSE IF equity * 10 >= s.start * 11 THEN
           [t EXCEPT !.pc = "done",
                     !.result = [passed |-> TRUE, failed |-> FALSE, reason |-> "none",
                                 profit |-> equity - s.start, trades |-> Len(s.trades)]]
       ELSE t

\* One iteration of the loop: lines 193-273.
FPStep(s, high, low, close, atr_in, signal) ==
    LET m == FPManage(s, high, low, FPAtr(atr_in, close))
        e == FPOpen(m, signal)
        r == FPRulesCheck(e, close)
    IN [r EXCEPT !.i = s.i + 1]

\* The records _get_signal_at can return on a bar: None when the ATR of the
\* bar is NaN (line 299); the entries followed are those of a positive ATR.
FPBarSignals(close, atr_in) ==
    {NoSignal} \cup (IF atr_in > 0
                     THEN {FPSignal(d, close, atr_in) : d \in FPDirections} ELSE {})

\* for i in range(25, min(25 + time_limit, len(self.data)))
FPBar ==
    /\ fp.pc = "loop"
    /\ fp.i < FPStartIdx + FPMaxBars
    /\ \E b \in BarsOver(FPBarPrices), atr \in FPBarAtrs :
          \E signal \in FPBarSignals(b.close, atr) :
              fp' = FPStep(fp, b.high, b.low, b.close, atr, signal)
    /\ UNCHANGED NotFP

\* "End" and the final return: lines 275-290.  The data has no more bars;
\* the open position is settled at the last close, without a trade record.
FPEnd ==
    /\ fp.pc = "loop"
    /\ LET last == fp.equity_curve[Len(fp.equity_curve)]
           capital == IF fp.position # 0 THEN last ELSE fp.capital
       IN fp' = [fp EXCEPT !.pc = "done", !.capital = capital,
                           !.result = [passed |-> capital * 10 >= fp.start * 11,
                                       failed |-> FALSE, reason |-> "none",
                                       profit |-> capital - fp.start,
                                       trades |-> Len(fp.trades)]]
    /\ UNCHANGED NotFP

FPNext == FPBar \/ FPEnd

(***************************************************************************)
(* RiskManager                                                             *)
(*                                                                         *)
(* Prices are in dollars, units in hundredths, money in cents.  The        *)
(* arguments of the calls are Python numbers, as in the tests: a division  *)
(* by zero raises.  today is the date datetime.now() gives; trade_history  *)
(* holds a dict per opened trade, closed telling whether exit_price and    *)
(* pnl have been written into it.  last is a history field: the last call  *)
(* and what it returned.                                                   *)
(***************************************************************************)
\* Number of dates a manager lives through.
RMMaxDays == 2

\* Number of trades a manager opens.
RMMaxTrades == 2

\* initial_capital
RMInitialCapital == 10000000

\* atr_multiplier = 2.0
RMAtrMultiplier == 2

\* risk_reward_ratio = 2.0
RMRiskReward == 2

\* max_correlation = 0.7, in percent
RMMaxCorrelation == 70

\* max_daily_trades and max_drawdown (in percent) of two managers; the
\* defaults are 3 and 15.
RMConfigs == {[max_daily_trades |-> 2, max_drawdown |-> 15],
              [max_daily_trades |-> 1, max_drawdown |-> 5]}

\* The columns of the correlation matrix, in their order.
RMColumns == <<"XAU/USD", "EUR/USD">>

RMSymbols == {RMColumns[k] : k \in 1..Len(RMColumns)}

\* The correlation of two different symbols in the matrix of a call, in percent.
RMCorrelations == {50, 90}

RMEntryPrices == {1000}

RMExitPrices == {400, 1010}

RMAtrs == {0, 5}

RMSides == {"long", "short"}

\* None, where a PositionSize is expected.
RMNone == [units |-> 0, risk_amount |-> 0, stop_loss_price |-> 0,
           take_profit_price |-> 0, entry_price |-> 0]

RMNoCall == [op |-> "none", symbol |-> "", price |-> 0, ok |-> FALSE, reason |-> "",
             returned |-> RMNone]

\* __init__
RMStart(cfg) ==
    [pc |-> "ready", cfg |-> cfg, today |-> 1,
     initial_capital |-> RMInitialCapital, current_capital |-> RMInitialCapital,
     positions |-> <<>>, trade_history |-> <<>>,
     daily_trades |-> 0, last_trade_date |-> 0, last |-> RMNoCall, supplied |-> {}]

\* correlation_matrix.loc[a, b], in percent
RMCorrelation(corr, a, b) == IF a = b THEN 100 ELSE corr

\* can_open_position: the manager after the date check, and the pair returned.
RMCanOpenPositionNoLimit(s, symbol, corr) ==
    LET m == IF s.last_trade_date # s.today
             THEN [s EXCEPT !.daily_trades = 0, !.last_trade_date = s.today]
             ELSE s
    IN IF (m.initial_capital - m.current_capital) * 100
              >= m.initial_capital * m.cfg.max_drawdown THEN
           [m |-> m, ok |-> FALSE, reason |-> "Maximum drawdown reached"]
       ELSE IF \E pos_symbol \in DOMAIN m.positions :
                   Abs(RMCorrelation(corr, symbol, pos_symbol)) > RMMaxCorrelation THEN
           [m |-> m, ok |-> FALSE, reason |-> "High correlation with existing position"]
       ELSE [m |-> m, ok |-> TRUE, reason |-> "Position can be opened"]

RMCanOpenPosition(s, symbol, corr) ==
    LET m == IF s.last_trade_date # s.today
             THEN [s EXCEPT !.daily_trades = 0, !.last_trade_date = s.today]
             ELSE s
    IN IF m.daily_trades >= m.cfg.max_daily_trades THEN
           [m |-> m, ok |-> FALSE, reason |-> "Daily trade limit reached"]
       ELSE IF (m.initial_capital - m.current_capital) * 100
                   >= m.initial_capital * m.cfg.max_drawdown THEN
           [m |-> m, ok |-> FALSE, reason |-> "Maximum drawdown reached"]
       ELSE IF \E pos_symbol \in DOMAIN m.positions :
                   Abs(RMCorrelation(corr, symbol, pos_symbol)) > RMMaxCorrelation THEN
           [m |-> m, ok |-> FALSE, reason |-> "High correlation with existing position"]
       ELSE [m |-> m, ok |-> TRUE, reason |-> "Position can be opened"]

\* PositionSizer.calculate_stop_loss
RMStopLoss(entry_price, atr, side) ==
    IF side = "long" THEN entry_price - atr * RMAtrMultiplier
    ELSE entry_price + atr * RMAtrMultiplier

\* PositionSizer.calculate_take_profit
RMTakeProfit(entry_price, stop_loss_price) ==
    LET reward_distance == Abs(entry_price - stop_loss_price) * RMRiskReward
    IN IF entry_price > stop_loss_price THEN entry_price + reward_distance
       ELSE entry_price - reward_distance

\* PositionSizer.calculate_position_size, for a price_risk and an
\* entry_price that are not 0.
RMPositionSize(capital, entry_price, stop_loss_price, take_profit_price) ==
    LET risk_amount == Div(capital * PSMaxRiskPerTrade, 100)
        units == Div(capital * PSMaxRiskPerTrade,
                     100 * Abs(entry_price - stop_loss_price))
        max_units == Div(capital * PSMaxPositionSize, 100 * entry_price)
    IN [units |-> Min2(units, max_units), risk_amount |-> risk_amount,
        stop_loss_price |-> stop_loss_price, take_profit_price |-> take_profit_price,
        entry_price |-> entry_price]

\* PositionSizer.adjust_for_correlation; positions holds the open positions.
RMAdjustForCorrelation(position_size, corr, positions) ==
    LET new == {k \in 1..Len(RMColumns) : RMColumns[k] \notin DOMAIN positions}
    IN IF DOMAIN positions = {} \/ new = {} THEN position_size
       ELSE LET new_asset == RMColumns[CHOOSE k \in new : \A j \in new : k <= j]
                total[S \in SUBSET DOMAIN positions] ==
                    IF S = {} THEN 0
                    ELSE LET a == CHOOSE x \in S : TRUE
                         IN Abs(RMCorrelation(corr, new_asset, a)) * Abs(positions[a].units)
                            + total[S \ {a}]
            IN Div(position_size * 10000, 10000 + total[DOMAIN positions])

\* open_position
RMOpenPosition(s, symbol, entry_price, side, atr, corr) ==
    LET c == RMCanOpenPosition(s, symbol, corr)
        m == c.m
        stop_loss == RMStopLoss(entry_price, atr, side)
        take_profit == RMTakeProfit(entry_price, stop_loss)
    IN IF ~c.ok THEN
           [m EXCEPT !.last = [op |-> "open", symbol |-> symbol, price |-> entry_price, ok |-> FALSE,
                               reason |-> c.reason, returned |-> RMNone]]
       ELSE IF entry_price = stop_loss \/ entry_price = 0 THEN
           \* ZeroDivisionError, logged; None is returned
           [m EXCEPT !.last = [op |-> "open", symbol |-> symbol, price |-> entry_price, ok |-> FALSE,
                               reason |-> "Error opening position",
                               returned |-> RMNone]]
       ELSE
           LET sized == RMPositionSize(m.current_capital, entry_price, stop_loss,
                                       take_profit)
               position == [sized EXCEPT !.units =
                                RMAdjustForCorrelation(sized.units, corr, m.positions)]
           IN [m EXCEPT !.positions =
                            [k \in DOMAIN m.positions \cup {symbol} |->
                                 IF k = symbol THEN position ELSE m.positions[k]],
                        !.daily_trades = m.daily_trades + 1,
                        !.trade_history =
                            Append(m.trade_history,
                                   [symbol |-> symbol, entry_price |-> entry_price,
                                    side |-> side, position_size |-> position.units,
                                    stop_loss |-> stop_loss, take_profit |-> take_profit,
                                    date |-> m.today, closed |-> FALSE,
                                    exit_price |-> 0, pnl |-> 0]),
                        !.last = [op |-> "open", symbol |-> symbol, price |-> entry_price, ok |-> TRUE,
                                  reason |-> c.reason, returned |-> position]]

\* close_position
RMClosePositionKept(s, symbol, exit_price) ==
    IF symbol \notin DOMAIN s.positions THEN
        [s EXCEPT !.last = [op |-> "close", symbol |-> symbol, price |-> exit_price, ok |-> FALSE,
                            reason |-> "not found", returned |-> RMNone]]
    ELSE
        LET position == s.positions[symbol]
            pnl == (exit_price - position.entry_price) * position.units
        IN [s EXCEPT !.current_capital = s.current_capital + pnl,
                     !.last = [op |-> "close", symbol |-> symbol, price |-> exit_price, ok |-> TRUE,
                               reason |-> "", returned |-> position]]

RMClosePosition(s, symbol, exit_price) ==
    IF symbol \notin DOMAIN s.positions THEN
        [s EXCEPT !.last = [op |-> "close", symbol |-> symbol, price |-> exit_price, ok |-> FALSE,
                            reason |-> "not found", returned |-> RMNone]]
    ELSE
        LET position == s.positions[symbol]
            pnl == (exit_price - position.entry_price) * position.units
            n == Len(s.trade_history)
        IN [s EXCEPT !.current_capital = s.current_capital + pnl,
                     !.trade_history[n] = [s.trade_history[n] EXCEPT
                                               !.closed = TRUE,
                                               !.exit_price = exit_price,
                                               !.pnl = pnl],
                     !.positions = [k \in DOMAIN s.positions \ {symbol} |->
                                        s.positions[k]],
                     !.last = [op |-> "close", symbol |-> symbol, price |-> exit_price, ok |-> TRUE,
                               reason |-> "", returned |-> position]]

RMOpenCall ==
    /\ rm.pc = "ready"
    /\ \E symbol \in RMSymbols, entry_price \in RMEntryPrices, side \in RMSides,
          atr \in RMAtrs, corr \in RMCorrelations :
          /\ rm' = RMOpenPosition(rm, symbol, entry_price, side, atr, corr)
          /\ Len(rm'.trade_history) <= RMMaxTrades
    /\ UNCHANGED NotRM

RMCloseCall ==
    /\ rm.pc = "ready"
    /\ \E symbol \in RMSymbols, exit_price \in RMExitPrices :
          rm' = RMClosePosition(rm, symbol, exit_price)
    /\ UNCHANGED NotRM

\* The date changes between two calls.
RMMidnight ==
    /\ rm.pc = "ready"
    /\ rm.today < RMMaxDays
    /\ rm' = [rm EXCEPT !.today = rm.today + 1]
    /\ UNCHANGED NotRM

RMNext == RMOpenCall \/ RMCloseCall \/ RMMidnight

\* dict.get gives None for a symbol the dict does not hold.
RMMissing == -1

\* current_prices and atr_values of an update_stops call.
RMCurrentPrices == {990, 1030}

RMUpdateAtrs == {5}

\* update_stops.  supplied is a history field: the symbols the call had both
\* a price and an ATR for.
RMUpdateStops(s, current_prices, atr_values) ==
    LET given(k) == current_prices[k] # RMMissing /\ atr_values[k] # RMMissing
        updated(k) ==
            LET position == s.positions[k]
            IN IF ~given(k) THEN position
               ELSE IF position.units > 0 THEN
                   LET new_stop == current_prices[k] - atr_values[k] * RMAtrMultiplier
                   IN IF new_stop > position.stop_loss_price
                      THEN [position EXCEPT !.stop_loss_price = new_stop]
                      ELSE position
               ELSE
                   LET new_stop == current_prices[k] + atr_values[k] * RMAtrMultiplier
                   IN IF new_stop < position.stop_loss_price
                      THEN [position EXCEPT !.stop_loss_price = new_stop]
                      ELSE position
    IN [s EXCEPT !.positions = [k \in DOMAIN s.positions |-> updated(k)],
                 !.supplied = {k \in RMSymbols : given(k)},
                 !.last = [op |-> "update_stops", symbol |-> "", price |-> 0,
                           ok |-> TRUE, reason |-> "", returned |-> RMNone]]

RMUpdateStopsCall ==
    /\ rm.pc = "ready"
    /\ \E current_prices \in [RMSymbols -> RMCurrentPrices \cup {RMMissing}],
          atr_values \in [RMSymbols -> RMUpdateAtrs \cup {RMMissing}] :
          rm' = RMUpdateStops(rm, current_prices, atr_values)
    /\ UNCHANGED NotRM

\* The calls of a manager whose stops are updated.
RMStopsNext == RMOpenCall \/ RMCloseCall \/ RMUpdateStopsCall

(***************************************************************************)
(* MoneyManager                                                            *)
(*                                                                         *)
(* Money is in units of 100 dollars; a position size, the fraction         *)
(* risk_amount / current_capital, and the limits on it are in millionths.  *)
(* today is the date datetime.now() gives.  allocations, deallocated_on    *)
(* and last are history fields: the successful allocations with their      *)
(* dates, the dates of the deallocations, and the last call: the risk      *)
(* amount of an allocation and what it returned (None is MMNone).          *)
(***************************************************************************)
\* Number of dates a manager lives through.
MMMaxDays == 2

\* Number of successful allocations followed.
MMMaxAllocations == 2

\* Number of deallocations followed.
MMMaxDeallocations == 1

\* initial_capital
MMInitialCapital == 1000

MMUnit == 1000000

\* None, where an amount is expected.
MMNone == -1

\* The limits of the test, and the same with a sector limit of 3 percent.
MMLimits ==
    {[max_single_position |-> 100000, max_daily_risk |-> 50000,
      max_sector_exposure |-> 200000, max_drawdown |-> 150000],
     [max_single_position |-> 100000, max_daily_risk |-> 50000,
      max_sector_exposure |-> 30000, max_drawdown |-> 150000]}

MMSymbols == {"XAU/USD", "EUR/USD"}

\* "" is the call without a sector.
MMSectors == {"", "Precious Metals"}

MMRiskAmounts == {10, 40, 110}

MMPnls == {-200, 100}

MMNoCall == [op |-> "none", amount |-> 0,
             ok |-> FALSE, reason |-> "", returned |-> MMNone]

\* __init__
MMStart(limits) ==
    [pc |-> "ready", limits |-> limits, today |-> 1,
     initial_capital |-> MMInitialCapital, current_capital |-> MMInitialCapital,
     daily_risk_used |-> 0, positions |-> <<>>, sector_exposure |-> <<>>,
     last_reset |-> 1,
     allocations |-> <<>>, deallocated_on |-> <<>>, last |-> MMNoCall]

\* reset_daily_risk
MMResetDailyRisk(s) ==
    IF s.today # s.last_reset
    THEN [s EXCEPT !.daily_risk_used = 0, !.last_reset = s.today]
    ELSE s

\* self.sector_exposure.get(sector, 0.0)
MMExposure(s, sector) ==
    IF sector \in DOMAIN s.sector_exposure THEN s.sector_exposure[sector] ELSE 0

\* can_allocate: the manager after the daily reset, and the pair returned.
MMCanAllocateNoDailyLimit(s, symbol, risk_amount, sector) ==
    LET m == MMResetDailyRisk(s)
    IN IF m.current_capital = 0 THEN
           [m |-> m, ok |-> FALSE, reason |-> "division by zero"]
       ELSE
           LET position_size == Div(risk_amount * MMUnit, m.current_capital)
           IN IF position_size > m.limits.max_single_position THEN
                  [m |-> m, ok |-> FALSE, reason |-> "Position size exceeds limit"]
              ELSE IF sector # ""
                      /\ MMExposure(m, sector) + position_size
                             > m.limits.max_sector_exposure THEN
                  [m |-> m, ok |-> FALSE, reason |-> "Sector exposure limit exceeded"]
              ELSE IF Div((m.initial_capital - m.current_capital) * MMUnit,
                          m.initial_capital) > m.limits.max_drawdown THEN
                  [m |-> m, ok |-> FALSE, reason |-> "Maximum drawdown reached"]
              ELSE [m |-> m, ok |-> TRUE, reason |-> "Allocation allowed"]

MMCanAllocate(s, symbol, risk_amount, sector) ==
    LET m == MMResetDailyRisk(s)
    IN IF m.current_capital = 0 THEN
           \* ZeroDivisionError, logged
           [m |-> m, ok |-> FALSE, reason |-> "division by zero"]
       ELSE
           LET position_size == Div(risk_amount * MMUnit, m.current_capital)
           IN IF position_size > m.limits.max_single_position THEN
                  [m |-> m, ok |-> FALSE, reason |-> "Position size exceeds limit"]
              ELSE IF (m.daily_risk_used + risk_amount) * MMUnit
                          > m.current_capital * m.limits.max_daily_risk THEN
                  [m |-> m, ok |-> FALSE, reason |-> "Daily risk limit exceeded"]
              ELSE IF sector # ""
                      /\ MMExposure(m, sector) + position_size
                             > m.limits.max_sector_exposure THEN
                  [m |-> m, ok |-> FALSE, reason |-> "Sector exposure limit exceeded"]
              ELSE IF Div((m.initial_capital - m.current_capital) * MMUnit,
                          m.initial_capital) > m.limits.max_drawdown THEN
                  [m |-> m, ok |-> FALSE, reason |-> "Maximum drawdown reached"]
              ELSE [m |-> m, ok |-> TRUE, reason |-> "Allocation allowed"]

\* allocate_capital
MMAllocateCapital(s, symbol, risk_amount, sector) ==
    LET c == MMCanAllocate(s, symbol, risk_amount, sector)
        m == c.m
    IN IF ~c.ok THEN
           [m EXCEPT !.last = [op |-> "allocate", amount |-> risk_amount, ok |-> FALSE,
                               reason |-> c.reason, returned |-> MMNone]]
       ELSE
           LET position_size == Div(risk_amount * MMUnit, m.current_capital)
               allocated_amount == Div(m.current_capital * position_size, MMUnit)
           IN [m EXCEPT
                 !.positions = [k \in DOMAIN m.positions \cup {symbol} |->
                                    IF k = symbol THEN allocated_amount
                                    ELSE m.positions[k]],
                 !.daily_risk_used = m.daily_risk_used + risk_amount,
                 !.sector_exposure =
                     IF sector # ""
                     THEN [k \in DOMAIN m.sector_exposure \cup {sector} |->
                               IF k = sector THEN MMExposure(m, sector) + position_size
                               ELSE m.sector_exposure[k]]
                     ELSE m.sector_exposure,
                 !.allocations = Append(m.allocations,
                                        [date |-> m.today, risk_amount |-> risk_amount]),
                 !.last = [op |-> "allocate", amount |-> risk_amount, ok |-> TRUE,
                           reason |-> c.reason, returned |-> allocated_amount]]

\* deallocate_capital
MMDeallocateCapital(s, symbol, pnl, sector) ==
    LET call == [op |-> "deallocate", amount |-> 0, ok |-> symbol \in DOMAIN s.positions,
                 reason |-> "", returned |-> MMNone]
    IN IF symbol \notin DOMAIN s.positions THEN [s EXCEPT !.last = call]
       ELSE
           LET m == [s EXCEPT !.current_capital = s.current_capital + pnl,
                              !.deallocated_on = Append(s.deallocated_on, s.today),
                              !.last = call]
               gone == [k \in DOMAIN s.positions \ {symbol} |-> s.positions[k]]
           IN IF sector # "" /\ sector \in DOMAIN s.sector_exposure THEN
                  IF m.current_capital = 0 THEN
                      \* ZeroDivisionError, logged: the position stays
                      m
                  ELSE
                      LET position_size == Div(s.positions[symbol] * MMUnit,
                                               m.current_capital)
                          left == s.sector_exposure[sector] - position_size
                      IN [m EXCEPT
                            !.sector_exposure =
                                IF left <= 0
                                THEN [k \in DOMAIN s.sector_exposure \ {sector} |->
                                          s.sector_exposure[k]]
                                ELSE [s.sector_exposure EXCEPT ![sector] = left],
                            !.positions = gone]
              ELSE [m EXCEPT !.positions = gone]

MMAllocateCall ==
    /\ mm.pc = "ready"
    /\ \E symbol \in MMSymbols, risk_amount \in MMRiskAmounts, sector \in MMSectors :
          /\ mm' = MMAllocateCapital(mm, symbol, risk_amount, sector)
          /\ Len(mm'.allocations) <= MMMaxAllocations
    /\ UNCHANGED NotMM

MMDeallocateCall ==
    /\ mm.pc = "ready"
    /\ \E symbol \in MMSymbols, pnl \in MMPnls, sector \in MMSectors :
          /\ mm' = MMDeallocateCapital(mm, symbol, pnl, sector)
          /\ Len(mm'.deallocated_on) <= MMMaxDeallocations
    /\ UNCHANGED NotMM

\* The date changes between two calls.
MMMidnight ==
    /\ mm.pc = "ready"
    /\ mm.today < MMMaxDays
    /\ mm' = [mm EXCEPT !.today = mm.today + 1]
    /\ UNCHANGED NotMM

MMNext == MMAllocateCall \/ MMDeallocateCall \/ MMMidnight

(***************************************************************************)
(* ProfitableStrategy.backtest                                             *)
(*                                                                         *)
(* Prices and ATR values are in ticks, sizes in lots, money in tick x lot. *)
(* A size is rounded down to an even number of lots, so that half of a     *)
(* position is a whole number of lots.  The setup of a bar is what         *)
(* _get_entry_signal returns for it: its direction (0 for None) and its    *)
(* confidence in percent; its levels are computed from the bar as lines    *)
(* 351-355 and 392-396 compute them.  A NaN ATR (0) is replaced by 1% of   *)
(* the close in the management of a position, and is read as it is by      *)
(* _get_entry_signal: the stop and the size of the setup are NaN and the   *)
(* test position_size > 0 fails.                                           *)
(***************************************************************************)
PBMaxBars == 3

\* if i < 200: ... continue
PBStartIdx == 200

\* initial_capital, in tick x lot.
PBInitialCapital == 6000000

\* risk_per_trade, in percent.
PBRiskPct == 1

\* Cap at maximum (10% of capital at entry price)
PBMaxPosPct == 10

PBPrices == {9800, 10000, 10400, 10600}

\* 0 stands for a NaN ATR.
PBAtrs == {0, 400}

\* confidence, in percent: the base value and one with two confirmations.
PBConfidences == {50, 75}

PBNoTrade ==
    [entry_date |-> -1, entry_price |-> 0, side |-> "none", size |-> 0,
     exit_price |-> 0, exit_reason |-> "none", pnl |-> 0]

PBStart ==
    [pc |-> "loop", i |-> PBStartIdx, capital |-> PBInitialCapital,
     position |-> 0, entry_price |-> 0, stop_loss |-> 0,
     take_profit_1 |-> 0, take_profit_2 |-> 0, partial_exit_done |-> FALSE,
     highest_since_entry |-> 0, lowest_since_entry |-> WSInf,
     trailing_stop |-> 0, trades |-> <<>>, current_trade |-> PBNoTrade,
     close |-> 0, partial_pnl |-> 0, final_capital |-> 0]

\* atr = data['atr'].iloc[i] if not pd.isna(...) else close * 0.01
PBAtr(atr, close) == IF atr = 0 THEN Div(close, AtrFloorDen) ELSE atr

\* capital += pnl; the trade is completed and appended; position = 0
PBClose(s, exit_price, reason) ==
    LET pnl == IF s.position > 0 THEN (exit_price - s.entry_price) * s.position
               ELSE (s.entry_price - exit_price) * Abs(s.position)
    IN [s EXCEPT !.capital = s.capital + pnl,
                 !.trades = Append(s.trades,
                                   [s.current_trade EXCEPT !.exit_price = exit_price,
                                                           !.exit_reason = reason,
                                                           !.pnl = pnl]),
                 !.position = 0,
                 !.current_trade = PBNoTrade]

\* The exit of half the position at the first take profit: lines 507-514
\* and 556-561.  partial_pnl is a history field: the sum of the P&L of the
\* half exits.
PBPartialExit(s) ==
    LET exit_size == Div(Abs(s.position), 2)
        pnl == IF s.position > 0 THEN (s.take_profit_1 - s.entry_price) * exit_size
               ELSE (s.entry_price - s.take_profit_1) * exit_size
    IN [s EXCEPT !.capital = s.capital + pnl,
                 !.position = IF s.position > 0 THEN s.position - exit_size
                              ELSE s.position + exit_size,
                 !.partial_exit_done = TRUE,
                 !.trailing_stop = s.entry_price,
                 !.partial_pnl = s.partial_pnl + pnl]

\* The long branch of "Manage existing position": lines 477-528.
PBManageLong(s, high, low, atr) ==
    LET highest == Max2(s.highest_since_entry, high)
        breakeven == IF highest >= s.entry_price + (s.entry_price - s.stop_loss)
                     THEN Max2(s.trailing_stop, s.entry_price)
                     ELSE s.trailing_stop
        new_trail == highest - MulFrac(atr, 3, 2)
        trailing_stop == IF new_trail > breakeven THEN new_trail ELSE breakeven
        m == [s EXCEPT !.highest_since_entry = highest,
                       !.trailing_stop = trailing_stop]
    IN IF low <= Max2(s.stop_loss, trailing_stop) THEN
           PBClose(m, Max2(s.stop_loss, trailing_stop),
                   IF trailing_stop > s.stop_loss THEN "trailing_stop" ELSE "stop_loss")
       ELSE IF high >= s.take_profit_1 /\ ~s.partial_exit_done THEN PBPartialExit(m)
       ELSE IF high >= s.take_profit_2 THEN PBClose(m, s.take_profit_2, "take_profit")
       ELSE m

\* The short branch: lines 530-575.
PBManageShort(s, high, low, atr) ==
    LET lowest == Min2(s.lowest_since_entry, low)
        breakeven == IF lowest <= s.entry_price - (s.stop_loss - s.entry_price)
                     THEN Min2(IF s.trailing_stop > 0 THEN s.trailing_stop ELSE WSInf,
                               s.entry_price)
                     ELSE s.trailing_stop
        new_trail == lowest + MulFrac(atr, 3, 2)
        trailing_stop == IF (breakeven = 0 \/ new_trail < breakeven)
                            /\ new_trail < s.stop_loss
                         THEN new_trail ELSE breakeven
        actual_stop == IF trailing_stop > 0 THEN Min2(s.stop_loss, trailing_stop)
                       ELSE s.stop_loss
        m == [s EXCEPT !.lowest_since_entry = lowest,
                       !.trailing_stop = trailing_stop]
    IN IF high >= actual_stop THEN
           PBClose(m, actual_stop,
                   IF trailing_stop > 0 /\ trailing_stop < s.stop_loss
                   THEN "trailing_stop" ELSE "stop_loss")
       ELSE IF low <= s.take_profit_1 /\ ~s.partial_exit_done THEN PBPartialExit(m)
       ELSE IF low <= s.take_profit_2 THEN PBClose(m, s.take_profit_2, "take_profit")
       ELSE m

PBManage(s, high, low, atr) ==
    IF s.position > 0 THEN PBManageLong(s, high, low, atr)
    ELSE IF s.position < 0 THEN PBManageShort(s, high, low, atr)
    ELSE s

\* The levels of a setup, _get_entry_signal lines 349-355 and 390-396.
PBSetup(direction, confidence, high, low, close, atr) ==
    LET stop_loss == IF direction = 1 THEN low - Div(atr, 2) ELSE high + Div(atr, 2)
        risk == Abs(close - stop_loss)
    IN [direction |-> direction, entry_price |-> close, stop_loss |-> stop_loss,
        take_profit_1 |-> IF direction = 1 THEN close + risk * 2 ELSE close - risk * 2,
        take_profit_2 |-> IF direction = 1 THEN close + risk * 3 ELSE close - risk * 3,
        confidence |-> confidence]

\* _calculate_position_size: lines 424-436.
PBCalculatePositionSize(setup, capital) ==
    LET risk_amount100 == capital * PBRiskPct * setup.confidence
        risk_per_unit == Abs(setup.entry_price - setup.stop_loss)
    IN IF risk_per_unit <= 0 THEN 0
       ELSE LET position_size == Div(risk_amount100, 10000 * risk_per_unit)
                max_size == Div(capital * PBMaxPosPct, 100 * setup.entry_price)
            IN 2 * Div(Min2(position_size, max_size), 2)

\* "Check for new entry": lines 582-609.
PBEntry(s, direction, confidence, high, low, close, atr_in) ==
    IF s.position = 0 /\ direction # 0 /\ atr_in # 0 THEN
        LET setup == PBSetup(direction, confidence, high, low, close, atr_in)
            position_size == PBCalculatePositionSize(setup, s.capital)
        IN IF position_size > 0 THEN
               [s EXCEPT !.position = IF setup.direction > 0 THEN position_size
                                      ELSE -position_size,
                         !.entry_price = setup.entry_price,
                         !.stop_loss = setup.stop_loss,
                         !.take_profit_1 = setup.take_profit_1,
                         !.take_profit_2 = setup.take_profit_2,
                         !.partial_exit_done = FALSE,
                         !.trailing_stop = 0,
                         !.highest_since_entry = close,
                         !.lowest_since_entry = close,
                         !.current_trade =
                             [entry_date |-> s.i, entry_price |-> setup.entry_price,
                              side |-> IF setup.direction > 0 THEN "long" ELSE "short",
                              size |-> position_size,
                              exit_price |-> 0, exit_reason |-> "none", pnl |-> 0]]
           ELSE s
    ELSE s

\* One iteration of the loop from bar 200 on.
PBStep(s, high, low, close, atr_in, direction, confidence) ==
    LET b == [s EXCEPT !.close = close]
        m == PBManage(b, high, low, PBAtr(atr_in, close))
        e == PBEntry(m, direction, confidence, high, low, close, atr_in)
    IN [e EXCEPT !.i = s.i + 1]

PBBar ==
    /\ pb.pc = "loop"
    /\ pb.i < PBStartIdx + PBMaxBars
    /\ \E b \in BarsOver(PBPrices), atr \in PBAtrs, direction \in Signals,
          confidence \in PBConfidences :
          pb' = PBStep(pb, b.high, b.low, b.close, atr, direction, confidence)
    /\ UNCHANGED NotPB

\* "Close any remaining position" at the last close, and the final_capital
\* that _calculate_metrics returns: lines 614-629, 641 and 690.
PBFinish ==
    /\ pb.pc = "loop"
    /\ LET c == IF pb.position # 0 THEN PBClose(pb, pb.close, "end_of_data") ELSE pb
       IN pb' = [c EXCEPT !.pc = "done", !.final_capital = c.capital]
    /\ UNCHANGED NotPB

PBNext == PBBar \/ PBFinish

(***************************************************************************)
(* Specifications                                                          *)
(***************************************************************************)
Idle == [pc |-> "idle"]

\* The variables of the later parts are idle.
LaterIdle == ht = Idle /\ fp = Idle /\ rb2 = Idle /\ rm = Idle /\ mm = Idle /\ pb = Idle

\* Every variable but v is idle.
OthersIdle(v) ==
    /\ IF v = "ws" THEN TRUE ELSE ws = Idle
    /\ IF v = "rb" THEN TRUE ELSE rb = Idle
    /\ IF v = "op" THEN TRUE ELSE op = Idle
    /\ IF v = "pf" THEN TRUE ELSE pf = Idle
    /\ IF v = "ch" THEN TRUE ELSE ch = Idle
    /\ IF v = "fn" THEN TRUE ELSE fn = Idle
    /\ IF v = "ht" THEN TRUE ELSE ht = Idle
    /\ IF v = "fp" THEN TRUE ELSE fp = Idle
    /\ IF v = "rb2" THEN TRUE ELSE rb2 = Idle
    /\ IF v = "rm" THEN TRUE ELSE rm = Idle
    /\ IF v = "mm" THEN TRUE ELSE mm = Idle
    /\ IF v = "pb" THEN TRUE ELSE pb = Idle

InitWS == ws = WSStart /\ rb = Idle /\ op = Idle /\ pf = Idle /\ ch = Idle /\ fn = Idle /\ LaterIdle

InitRB == (\E has_atr \in BOOLEAN : rb = RBStart(has_atr)) /\ ws = Idle /\ op = Idle /\ pf = Idle /\ ch = Idle /\ fn = Idle /\ LaterIdle

SpecWS == InitWS /\ [][WSNext]_vars

InitOP == (\E cfg \in OPConfigs : op = OPStart(cfg)) /\ ws = Idle /\ rb = Idle /\ pf = Idle /\ ch = Idle /\ fn = Idle /\ LaterIdle

SpecRB == InitRB /\ [][RBNext]_vars

InitPF == (\E r \in PFRisks : pf = PFStart(r)) /\ ws = Idle /\ rb = Idle /\ op = Idle /\ ch = Idle /\ fn = Idle /\ LaterIdle

SpecOP == InitOP /\ [][OPNext]_vars

SpecPF == InitPF /\ [][PFNext]_vars

InitCH == (\E cfg \in CHConfigs : ch = CHStart(cfg)) /\ ws = Idle /\ rb = Idle /\ op = Idle /\ pf = Idle /\ fn = Idle /\ LaterIdle

SpecCH == InitCH /\ [][CHNext]_vars

InitPS ==
    /\ \E capital \in PSCapitals, entry_price \in PSEntryPrices,
          stop_loss_price \in PSStopPrices, numpy \in BOOLEAN :
          fn = PSStart(capital, entry_price, stop_loss_price, numpy)
    /\ ws = Idle /\ rb = Idle /\ op = Idle /\ pf = Idle /\ ch = Idle /\ LaterIdle

InitFPEntry ==
    /\ \E capital \in PSCapitals, direction \in FPDirections, close \in FPCloses,
          atr \in FPAtrs : fn = FPEntryStart(capital, direction, close, atr)
    /\ ws = Idle /\ rb = Idle /\ op = Idle /\ pf = Idle /\ ch = Idle /\ LaterIdle

InitTMEntry ==
    /\ \E signal \in {-1, 1}, current_price \in TMPrices, prev_capital \in PSCapitals,
          current_atr \in TMAtrs :
          fn = TMEntryStart(signal, current_price, prev_capital, current_atr)
    /\ OthersIdle("fn")

\* One sizing call, of one of the sizers.
InitSizing == InitPS \/ InitFPEntry \/ InitTMEntry

SpecSizing == InitSizing /\ [][SizingNext]_vars

\* A feed over the window, given its rows.
Feed3(first, r0, r1, r2) ==
    [k \in first .. first + 2 |-> IF k = first THEN r0 ELSE IF k = first + 1 THEN r1 ELSE r2]

InitFPSignal ==
    /\ \/ \E r0 \in FPRows, r1 \in FPRows, r2 \in FPLaterRows, o2 \in FPLaterRows :
            fn = FPSignalStart(Feed3(0, r0, r1, r2), Feed3(0, r0, r1, o2), 1)
       \/ \E r0 \in FPRows, r1 \in FPLaterRows, r2 \in FPLaterRows,
               o1 \in FPLaterRows, o2 \in FPLaterRows :
            fn = FPSignalStart(Feed3(0, r0, r1, r2), Feed3(0, r0, o1, o2), 0)
    /\ ws = Idle /\ rb = Idle /\ op = Idle /\ pf = Idle /\ ch = Idle /\ LaterIdle

InitTMSignal ==
    /\ \E prev \in TMRows, cur \in TMRows : fn = TMSignalStart(prev, cur)
    /\ ws = Idle /\ rb = Idle /\ op = Idle /\ pf = Idle /\ ch = Idle /\ LaterIdle

InitWSSignal ==
    /\ \/ \E r0 \in WSRows, r1 \in WSRows, r2 \in WSLaterRows, o2 \in WSLaterRows :
            fn = WSSignalStart(Feed3(WSWarmUp - 1, r0, r1, r2),
                               Feed3(WSWarmUp - 1, r0, r1, o2), WSWarmUp)
       \/ \E r0 \in WSRows, r1 \in WSLaterRows, r2 \in WSLaterRows,
               o1 \in WSLaterRows, o2 \in WSLaterRows :
            fn = WSSignalStart(Feed3(WSWarmUp - 1, r0, r1, r2),
                               Feed3(WSWarmUp - 1, r0, o1, o2), WSWarmUp - 1)
    /\ ws = Idle /\ rb = Idle /\ op = Idle /\ pf = Idle /\ ch = Idle /\ LaterIdle

\* One call of a signal generator.
InitSignals == InitFPSignal \/ InitTMSignal \/ InitWSSignal

SpecSignals == InitSignals /\ [][SignalsNext]_vars

\* One call of a metrics calculator; the equity series has an entry at least.
InitMetrics ==
    /\ \E class \in MTCalculators, pnls \in SeqsUpTo(MTPnls, MTMaxTrades),
          equity \in SeqsUpTo(MTEquities, MTMaxEquity) \ {<<>>} :
          fn = MTStart(class, pnls, equity)
    /\ ws = Idle /\ rb = Idle /\ op = Idle /\ pf = Idle /\ ch = Idle /\ LaterIdle

SpecMetrics == InitMetrics /\ [][MTCall]_vars

InitFP == fp = FPStart /\ OthersIdle("fp")

SpecFP == InitFP /\ [][FPNext]_vars

\* A challenge of FinalPropStrategy or of OptimizedPropStrategy.
SpecStops == (InitFP \/ InitOP) /\ [][FPNext \/ OPNext]_vars

InitRBTwin ==
    /\ \E has_atr \in BOOLEAN : rb = RBStart(has_atr) /\ rb2 = RBStart(has_atr)
    /\ ws = Idle /\ op = Idle /\ pf = Idle /\ ch = Idle /\ fn = Idle
    /\ ht = Idle /\ fp = Idle /\ rm = Idle /\ mm = Idle /\ pb = Idle

SpecRBTwin == InitRBTwin /\ [][RBTwinNext]_vars

InitRM == (\E cfg \in RMConfigs : rm = RMStart(cfg)) /\ OthersIdle("rm")

SpecRM == InitRM /\ [][RMNext]_vars

SpecRMStops == InitRM /\ [][RMStopsNext]_vars

InitMM == (\E limits \in MMLimits : mm = MMStart(limits)) /\ OthersIdle("mm")

SpecMM == InitMM /\ [][MMNext]_vars

InitHT == (\E cfg \in HTConfigs : ht = HTStart(cfg)) /\ OthersIdle("ht")

SpecHT == InitHT /\ [][HTNext]_vars

\* A backtest of WorkingStrategy, or one sizing call.
SpecWSSizing == (InitWS \/ InitSizing) /\ [][WSNext \/ SizingNext]_vars

InitPB == pb = PBStart /\ OthersIdle("pb")

SpecPB == InitPB /\ [][PBNext]_vars

Init == InitPB \/ InitWS \/ InitRB \/ InitOP \/ InitPF \/ InitCH \/ InitSizing \/ InitSignals \/ InitMetrics \/ InitHT \/ InitFP \/ InitRBTwin \/ InitRM \/ InitMM

Next == WSNext \/ RBNext \/ OPNext \/ PFNext \/ CHNext \/ SizingNext \/ SignalsNext \/ MTCall \/ HTNext \/ FPNext \/ RBTwinNext \/ RMNext \/ MMNext \/ RMUpdateStopsCall \/ PBNext

Spec == Init /\ [][Next]_vars

\* The two plain simulators, one run of either.
InitSim == InitWS \/ InitRB

SimNext == WSNext \/ RBNext

SpecSim == InitSim /\ [][SimNext]_vars

(***************************************************************************)
(* Properties of the simulators                                            *)
(***************************************************************************)
\* The trade log of a simulator e audited against the log of its entries:
\* every entry but possibly the last has its closed trade, in order, and the
\* next entry comes no earlier than that trade's exit.
LogAlternates(e) ==
    /\ Len(e.opens) - Len(e.trades) \in {0, 1}
    /\ \A k \in 1..Len(e.trades) :
          /\ e.trades[k].entry_date = e.opens[k]
          /\ e.trades[k].entry_date <= e.trades[k].exit_date
    /\ \A k \in 1..(Len(e.opens) - 1) :
          k <= Len(e.trades) /\ e.trades[k].exit_date <= e.opens[k + 1]

\* While the loop runs, the position is non-zero exactly when one entry has
\* no closed trade yet.
OneOpenAtMost(e) ==
    e.pc = "loop" => ((e.position # 0) <=> (Len(e.opens) = Len(e.trades) + 1))

\* C1: WorkingStrategy.backtest and RealisticBacktester.run_backtest hold at
\* most one open position at every bar: a position is opened only while flat,
\* and in the trade log opens and closes alternate without overlap.
C1_AtMostOnePosition ==
    /\ ws.pc # "idle" => LogAlternates(ws) /\ OneOpenAtMost(ws)
    /\ rb.pc # "idle" => LogAlternates(rb) /\ OneOpenAtMost(rb)

\* C1 witness: a second position is open after the first one was closed.
C1_Witness ==
    /\ rb.pc = "loop"
    /\ Len(rb.opens) = 2
    /\ Len(rb.trades) = 1
    /\ rb.position # 0

\* The simulator e closed a trade on the bar it processed last.
ExitedOnLastBar(e) ==
    /\ e.pc = "loop"
    /\ Len(e.trades) > 0
    /\ Last(e.trades).exit_date = e.i - 1

\* C2: whenever a position is closed on a bar, no new position is opened on
\* that bar: the engine is flat at the end of every bar with an exit.
C2_NoSameBarReentry ==
    /\ ws.pc # "idle" /\ ExitedOnLastBar(ws) => ws.position = 0
    /\ rb.pc # "idle" /\ ExitedOnLastBar(rb) => rb.position = 0

\* The stop and the target both lie in the range of the bar.
BothInRange(low, high, stop, target) ==
    /\ low <= stop /\ stop <= high
    /\ low <= target /\ target <= high

\* The step appended one trade, with this reason and exit price.
ClosedWith(e, f, reason, price) ==
    /\ Len(f.trades) = Len(e.trades) + 1
    /\ Last(f.trades).exit_reason = reason
    /\ Last(f.trades).exit_price = price

\* The stop rule for a WorkingStrategy step from ws to ws'.
WSStopFirst ==
    (/\ ws.pc = "loop" /\ ws'.pc = "loop" /\ ws'.i = ws.i + 1
     /\ ws.position # 0
     /\ BothInRange(ws'.low, ws'.high, ws'.effective_stop, ws.take_profit))
    => ClosedWith(ws, ws', "stop_loss", ws'.effective_stop)

\* A RealisticBacktester step from rb to rb' on a bar whose range holds both
\* the stop and the target of the open position.
RBBothInRangeStep ==
    /\ rb.pc = "loop" /\ rb'.pc = "loop" /\ rb'.i = rb.i + 1
    /\ rb.position # 0
    /\ BothInRange(rb'.low, rb'.high, rb.stop_loss, rb.take_profit)

\* Equity over used margin at the close of the bar is below stop_out_level.
MarginLevelBelowStopOut(capital, position, entry_price, current_price) ==
    LET equity == capital + (current_price - entry_price) * position
        margin_used == (Abs(position) * current_price) \div RBLeverage
    IN margin_used > 0 /\ equity * RBStopOutDen < margin_used

\* C3 as stated: on a bar whose range holds both the effective stop and the
\* take-profit, the position is closed at the stop price with a stop-loss
\* exit, long or short, in both simulators.
C3_StopBeforeTarget_Original ==
    [][/\ WSStopFirst
       /\ RBBothInRangeStep => ClosedWith(rb, rb', "stop_loss", rb.stop_loss)]_vars

\* C3 amended: the same, unless in RealisticBacktester the margin stop-out
\* fires on that bar, which closes the position at the bar's close with
\* reason stop_out before stop and target are looked at.
C3_StopBeforeTarget ==
    [][/\ WSStopFirst
       /\ RBBothInRangeStep =>
            IF MarginLevelBelowStopOut(rb.capital, rb.position, rb.entry_price, rb'.close)
            THEN ClosedWith(rb, rb', "stop_out", rb'.close)
            ELSE ClosedWith(rb, rb', "stop_loss", rb.stop_loss)]_vars

\* C3 witness: a short position stopped out at its stop on a bar whose range
\* also held its take-profit (no re-entry, so stop and target are still those
\* of the closed trade).
C3_Witness ==
    /\ rb.pc = "loop"
    /\ rb.position = 0
    /\ ExitedOnLastBar(rb)
    /\ Last(rb.trades).side = "short"
    /\ Last(rb.trades).exit_reason = "stop_loss"
    /\ Last(rb.trades).exit_price = rb.stop_loss
    /\ BothInRange(rb.low, rb.high, rb.stop_loss, rb.take_profit)

\* C4: in WorkingStrategy.backtest the effective stop used on a bar is, for a
\* long position, never below the one used on the previous bar of the same
\* trade, and for a short position never above it.
C4_TrailingStopMonotone ==
    [][(/\ ws.pc = "loop" /\ ws'.pc = "loop" /\ ws'.i = ws.i + 1
        /\ ws.position # 0
        /\ ws.current_trade.entry_date + 2 <= ws.i)
       => IF ws.position > 0 THEN ws'.effective_stop >= ws.effective_stop
          ELSE ws'.effective_stop <= ws.effective_stop]_vars

\* C5: after run_backtest the last value of equity_curve equals
\* initial_capital plus the sum of net_pnl over the trades, and equals the
\* returned final_capital.
C5_FinalEquityIsRealized ==
    rb.pc = "done" =>
        /\ Last(rb.equity_curve) = RBInitialCapital + SumPnl(rb.trades, "net_pnl")
        /\ Last(rb.equity_curve) = rb.final_capital

\* The run of simulator e has returned with every entry closed exactly once,
\* and a position left open by the last bar closed at that bar's close.
ClosedAtEndOfData(e) ==
    e.pc = "done" =>
        /\ Len(e.trades) = Len(e.opens)
        /\ \A k \in 1..Len(e.trades) : e.trades[k].entry_date = e.opens[k]
        /\ e.position # 0 =>
              /\ Last(e.trades).exit_reason = "end_of_data"
              /\ Last(e.trades).exit_price = e.close
              /\ Last(e.trades).exit_date = e.i - 1
        /\ \A k \in 1..Len(e.trades) :
              e.trades[k].exit_reason = "end_of_data" => (k = Len(e.trades) /\ e.position # 0)

\* C6: a position still open after the final bar is closed at the last
\* bar's close with exit_reason end_of_data; when the run returns every
\* opened position has exactly one closed-trade record.
C6_EndOfDataClosure ==
    /\ ws.pc # "idle" => ClosedAtEndOfData(ws)
    /\ rb.pc # "idle" => ClosedAtEndOfData(rb)

\* C6 witness: a run that returned after closing a short position at the end
\* of the data.
C6_Witness ==
    /\ ws.pc = "done"
    /\ ws.position < 0
    /\ Last(ws.trades).exit_reason = "end_of_data"
    /\ Len(ws.trades) = 2

(***************************************************************************)
(* OptimizedPropStrategy.backtest_challenge: terminal outcomes             *)
(***************************************************************************)
\* The equity, unrealized P&L included, at the end of the k-th processed bar,
\* and at its start (the end of the bar before, the starting capital for the
\* first bar).
OPEquityAtEnd(k) == op.daily_equity[k]

OPEquityAtStart(k) == IF k = 1 THEN op.start_capital ELSE op.daily_equity[k - 1]

\* The running peak of the equity up to the end of the k-th processed bar.
OPPeak(k) ==
    LET S == {op.start_capital} \cup {op.daily_equity[j] : j \in 1..k}
    IN CHOOSE m \in S : \A x \in S : x <= m

OPDrawdownExceeded(k) ==
    (OPPeak(k) - OPEquityAtEnd(k)) * 100 > op.start_capital * op.cfg.max_drawdown

\* C7: whenever backtest_challenge ends in a terminal outcome while a position
\* is open, that position is closed at the terminal bar's close price: it has a
\* trade record with that exit price, and its P&L and its trade are counted
\* in the reported profit and trade count.
C7_TerminalClosesPosition ==
    (op.pc = "done" /\ op.position # 0) =>
        /\ Len(op.trades) = Len(op.opens)
        /\ Last(op.trades).exit_price = op.close
        /\ Last(op.trades).exit_date = op.i - 1
        /\ op.result.trades = Len(op.opens)
        /\ op.result.profit = SumPnl(op.trades, "pnl")

\* C8: the challenge is reported failed (passed = false) at the first
\* processed bar at whose end (running peak - equity) / starting capital is
\* strictly greater than max_drawdown, and that bar is the last one processed;
\* a run that fails for drawdown has a drawdown strictly greater than
\* max_drawdown at its last bar, so that equality does not fail.
C8_DrawdownFailsAtFirstBreach ==
    /\ op.pc \in {"loop", "done"} =>
          \A k \in 1..Len(op.daily_equity) :
              OPDrawdownExceeded(k) =>
                  /\ k = Len(op.daily_equity)
                  /\ op.pc = "done"
                  /\ op.result.failed
                  /\ ~op.result.passed
    /\ (op.pc = "done" /\ op.result.reason = "Max drawdown") =>
          /\ op.result.failed
          /\ OPDrawdownExceeded(Len(op.daily_equity))

\* A run that fails for drawdown at its third bar, the bar before having
\* set the peak.
C8_Witness ==
    /\ op.pc = "done"
    /\ op.result.reason = "Max drawdown"
    /\ Len(op.daily_equity) = 3
    /\ OPPeak(3) = op.daily_equity[2]
    /\ OPPeak(3) > op.start_capital

\* C10: the run fails for daily loss at a bar exactly when the equity at the
\* end of that bar is lower than the equity at the start of that bar (the end
\* of the bar before), unrealized P&L included in both, by more than
\* max_daily_loss x starting capital.
C10_DailyLossFromBarStartEquity ==
    op.pc \in {"loop", "done"} =>
        \A k \in 1..Len(op.daily_equity) :
            ((OPEquityAtStart(k) - OPEquityAtEnd(k)) * 100
                 > op.start_capital * op.cfg.max_daily_loss)
            <=> (/\ k = Len(op.daily_equity)
                 /\ op.pc = "done"
                 /\ op.result.reason = "Daily loss")

(***************************************************************************)
(* PropFirmStrategy.backtest: drawdown                                     *)
(***************************************************************************)
\* The running peak of the equity, unrealized P&L included, up to the end of
\* the k-th processed bar.
PFPeak(k) ==
    LET S == {pf.initial_capital} \cup {pf.equity[j] : j \in 1..k}
    IN CHOOSE m \in S : \A x \in S : x <= m

PFDrawdownExceeded(k) ==
    (PFPeak(k) - pf.equity[k]) * 100 > pf.initial_capital * PFMaxDrawdown

\* C9: a run at the end of one of whose bars the equity, the open position's
\* unrealized P&L included, was more than max_drawdown x initial capital below
\* its running peak is never returned with failed = false.
C9_DrawdownCountsUnrealized ==
    (pf.pc = "done" /\ \E k \in 1..Len(pf.equity) : PFDrawdownExceeded(k)) =>
        pf.result.failed

(***************************************************************************)
(* PropFirmChallenge.run_challenge: passing                                *)
(***************************************************************************)
RECURSIVE SumSeq(_)
SumSeq(q) == IF q = <<>> THEN 0 ELSE q[1] + SumSeq(Tail(q))

\* The realized capital at the end of the k-th processed bar.
CHCapitalAt(k) == ch.start_capital + SumSeq(SubSeq(ch.daily_pnl, 1, k))

\* The trades closed by the loop up to the end of the k-th processed bar.
CHTradingDaysAt(k) ==
    Cardinality({j \in 1..Len(ch.trades) :
                    /\ ch.trades[j].reason # "end"
                    /\ ch.trades[j].exit_date <= CHStartIdx + k - 1})

CHPeakAt(k) ==
    LET S == {ch.start_capital} \cup {CHCapitalAt(j) : j \in 1..k}
    IN CHOOSE m \in S : \A x \in S : x <= m

\* A failure rule is breached at the end of the k-th processed bar.
CHBreachedAt(k) ==
    \/ ch.daily_pnl[k] * 100 < -(ch.start_capital * ch.cfg.max_daily_loss)
    \/ (CHPeakAt(k) - CHCapitalAt(k)) * 100
           > ch.start_capital * ch.cfg.max_total_drawdown

\* C11: run_challenge returns passed = true only if at the end of its last
\* processed bar, a bar within the time limit on or before which no failure
\* rule was breached, the realized profit is at least profit_target x
\* starting capital and at least min_trading_days trades have been closed.
C11_PassNeedsTargetAndDays ==
    (ch.pc = "done" /\ ch.passed) =>
        LET k == Len(ch.daily_pnl)
        IN /\ 1 <= k /\ k <= ch.cfg.time_limit_days
           /\ ch.day_count = k
           /\ ~ch.failed
           /\ (CHCapitalAt(k) - ch.start_capital) * 100
                  >= ch.start_capital * ch.cfg.profit_target
           /\ CHTradingDaysAt(k) >= ch.cfg.min_trading_days
           /\ \A j \in 1..k : ~CHBreachedAt(j)

\* A passed run whose open position was closed after the pass.
C11_Witness ==
    /\ ch.pc = "done"
    /\ ch.passed
    /\ ch.position # 0
    /\ Last(ch.trades).reason = "end"

(***************************************************************************)
(* OptimizedPropStrategy.backtest_challenge: the end of the loop           *)
(***************************************************************************)
\* The step in which the loop has ended without a pass or a fail: the run
\* returns without having processed a bar in that step.
OPLoopEnded ==
    /\ op.pc = "loop"
    /\ op'.pc = "done"
    /\ op'.daily_equity = op.daily_equity

\* C12: when the bar loop ends without a pass or a fail, at most time_limit
\* bars have been processed, an open position is closed at the last processed
\* bar's close, failed is false, and passed is true exactly when the final
\* realized profit is at least profit_target x starting capital, the reason
\* being 'Time limit' otherwise.
C12_TimeLimitOutcome ==
    [][OPLoopEnded =>
          /\ Len(op.daily_equity) <= op.cfg.time_limit
          /\ op.position # 0 =>
                /\ Len(op'.trades) = Len(op.trades) + 1
                /\ Last(op'.trades).reason = "end"
                /\ Last(op'.trades).exit_price = op.close
                /\ Last(op'.trades).exit_date = op.i - 1
                /\ op'.capital = op.capital + OPUnrealized(op, op.close)
          /\ op.position = 0 => (op'.trades = op.trades /\ op'.capital = op.capital)
          /\ Len(op'.trades) = Len(op.opens)
          /\ ~op'.result.failed
          /\ op'.result.profit = op'.capital - op.start_capital
          /\ op'.result.trades = Len(op'.trades)
          /\ op'.result.passed <=>
                (op'.capital - op.start_capital) * 100
                    >= op.start_capital * op.cfg.profit_target
          /\ ~op'.result.passed => op'.result.reason = "Time limit"]_vars

\* A run that reached its time limit with a position open.
C12_Witness ==
    /\ op.pc = "done"
    /\ op.result.reason = "Time limit"
    /\ Len(op.daily_equity) = op.cfg.time_limit
    /\ op.position # 0
    /\ Last(op.trades).reason = "end"

(***************************************************************************)
(* Position sizing                                                         *)
(***************************************************************************)
\* The call of PositionSizer.calculate_position_size has ended.
PSEnded ==
    /\ fn.pc \in {"return", "raise"}
    /\ fn.f = "PositionSizer.calculate_position_size"

\* The entry step of FinalPropStrategy.backtest_challenge has run.
FPEntryEnded ==
    /\ fn.pc = "return"
    /\ fn.f = "FinalPropStrategy.backtest_challenge: new entry"

\* A float that is zero.
FZero(x) == x.kind = "fin" /\ x.num = 0

\* C13: whenever the risk distance |entry price - stop-loss| is zero,
\* calculate_position_size and the entry step of backtest_challenge yield a
\* size of zero, without raising and without an infinite size.
C13_SizingFailsClosed ==
    /\ (PSEnded /\ fn.entry_price = fn.stop_loss_price) =>
          (fn.pc = "return" /\ FZero(fn.result.units))
    /\ (FPEntryEnded /\ fn.signal.entry = fn.signal.stop_loss) =>
          FZero(fn.result.size)

\* Equality of two finite floats.
FEq(a, b) == a.kind = "fin" /\ b.kind = "fin" /\ a.num * b.den = b.num * a.den

\* capital * max_risk_per_trade / |entry_price - stop_loss_price| of a call.
PSRiskUnits == Fin(fn.capital * PSMaxRiskPerTrade,
                   100 * Abs(fn.entry_price - fn.stop_loss_price))

\* capital * max_position_size / entry_price of a call.
PSCapUnits == Fin(fn.capital * PSMaxPositionSize, 100 * fn.entry_price)

\* The inputs of the call are the ones the claim is about.
PSRegularCall ==
    /\ PSEnded
    /\ fn.capital > 0
    /\ fn.entry_price > 0
    /\ fn.stop_loss_price # fn.entry_price

\* C14: for capital > 0, entry > 0 and stop # entry, calculate_position_size
\* returns the smaller of the risk-based units and the capped units, so the
\* position value is at most max_position_size of the capital; and every
\* position WorkingStrategy.backtest opens has |size| * entry price at most
\* 10 % of the capital at the entry.
C14_HardCapAfterRiskSizing ==
    [][/\ PSRegularCall' =>
            /\ fn'.pc = "return"
            /\ FEq(fn'.result.units,
                   IF FLess(PSCapUnits', PSRiskUnits') THEN PSCapUnits' ELSE PSRiskUnits')
            /\ fn'.result.units.num * fn'.entry_price * 100
                  <= fn'.capital * PSMaxPositionSize * fn'.result.units.den
       /\ (ws.pc = "loop" /\ ws'.pc = "loop" /\ Len(ws'.opens) > Len(ws.opens)) =>
            Abs(ws'.position) * ws'.entry_price * 100 <= ws'.capital * WSMaxPosPct]_vars

\* A call in which the cap is the smaller of the two sizes, and is returned.
C14_Witness ==
    /\ PSRegularCall
    /\ FLess(PSCapUnits, PSRiskUnits)
    /\ FEq(fn.result.units, PSCapUnits)

\* A call in which the risk-based size is the smaller one.
PSRiskBinds ==
    /\ PSRegularCall
    /\ FLess(PSRiskUnits, PSCapUnits)
    /\ FEq(fn.result.units, PSRiskUnits)

\* A position of WorkingStrategy.backtest sized by the cap.
WSCapBinds ==
    /\ ws.pc = "loop"
    /\ ws.position # 0
    /\ Abs(ws.position) = Div(MulFrac(ws.capital, WSMaxPosPct, 100), ws.entry_price)
    /\ Abs(ws.position) < Div(MulFrac(ws.capital, WSRiskPct, 100),
                              Abs(ws.entry_price - ws.stop_loss))

(***************************************************************************)
(* Signal generators                                                       *)
(***************************************************************************)
FPSignalEnded == fn.pc = "return" /\ fn.f = "FinalPropStrategy._get_signal_at"

TMSignalEnded == fn.pc = "return" /\ fn.f = "TrendMomentumStrategy.generate_signals"

WSSignalEnded == fn.pc = "return" /\ fn.f = "WorkingStrategy.generate_signals"

\* The rules of _get_signal_at disagree at bar i of the call.
FPConflict ==
    /\ fn.i >= 1
    /\ "LONG" \in FPRules(fn.data[fn.i - 1], fn.data[fn.i])
    /\ "SHORT" \in FPRules(fn.data[fn.i - 1], fn.data[fn.i])

\* A long and a short confirmation of generate_signals hold at the bar.
TMConflict == TMLongSignal(fn.prev, fn.cur) /\ TMShortSignal(fn.prev, fn.cur)

\* C15: when at least one rule votes LONG and at least one votes SHORT on a
\* bar, _get_signal_at returns None and generate_signals of
\* TrendMomentumStrategy yields 0.
C15_ConflictingVotesCancel ==
    /\ (FPSignalEnded /\ FPConflict) => fn.result = NoSignal
    /\ (TMSignalEnded /\ TMConflict) => fn.result = 0

\* C16: the signal at index i is the same for two feeds that agree on the
\* indices <= i, and producing it changes neither the feed nor anything else.
C16_NoLookAhead ==
    [][/\ (FPSignalEnded' \/ WSSignalEnded') =>
            /\ fn'.result = fn'.other_result
            /\ fn'.data = fn.data
            /\ fn'.other = fn.other
       /\ UNCHANGED NotFN]_<<fn>>

\* Two feeds that differ after bar i, and a signal at bar i.
C16_Witness ==
    /\ FPSignalEnded
    /\ fn.i = 1
    /\ fn.data[2] # fn.other[2]
    /\ fn.result # NoSignal

(***************************************************************************)
(* Metrics                                                                 *)
(***************************************************************************)
MTEnded == fn.pc = "return" /\ fn.f = "_calculate_metrics"

\* C17: with zero closed trades the calculators of RealisticBacktester and
\* WorkingStrategy return a record in which win_rate, profit_factor and the
\* maximum drawdown are 0.
C17_ZeroTradesMetrics ==
    (MTEnded /\ fn.trades = <<>> /\ fn.class \in {"RealisticBacktester", "WorkingStrategy"}) =>
        /\ FZero(fn.result.win_rate)
        /\ FZero(fn.result.profit_factor)
        /\ FZero(fn.result.max_drawdown_pct)
        /\ fn.class = "RealisticBacktester" => FZero(fn.result.max_drawdown)
        /\ fn.result.total_trades = 0

\* A call of the calculator of RealisticBacktester without trades, the
\* equity series being flat at the initial capital, has returned.
C17_Witness ==
    /\ MTEnded
    /\ fn.trades = <<>>
    /\ fn.class = "RealisticBacktester"
    /\ \A k \in DOMAIN fn.equity : fn.equity[k] = MTInitialCapital
    /\ fn.result.final_capital = MTInitialCapital
    /\ FZero(fn.result.profit_factor)

\* The sums of the winning and of the losing trades of the call.
MTGrossProfit ==
    SumPnl(Winners(fn.trades, MTField(fn.class)), MTField(fn.class))

MTGrossLoss ==
    Abs(SumPnl(Losers(fn.trades, MTField(fn.class)), MTField(fn.class)))

\* C18: each calculator returns profit_factor = gross_profit / gross_loss
\* when gross_loss > 0, +infinity when gross_loss = 0 and gross_profit > 0,
\* and 0 when there are no trades.
C18_ProfitFactor ==
    MTEnded =>
        /\ MTGrossLoss > 0 =>
              FEq(fn.result.profit_factor, Fin(MTGrossProfit, MTGrossLoss))
        /\ (MTGrossLoss = 0 /\ MTGrossProfit > 0) => fn.result.profit_factor = FInf
        /\ fn.trades = <<>> => FZero(fn.result.profit_factor)

(***************************************************************************)
(* RealisticBacktester: stop-out and the equity series                     *)
(***************************************************************************)
\* The bar RBBar is about to process finds a position whose margin level is
\* under the stop-out level at the close price c.
RBStopOutAt(c) ==
    /\ rb.position # 0
    /\ Div(Abs(rb.position) * c, RBLeverage) > 0
    /\ (rb.capital + (c - rb.entry_price) * rb.position) * RBStopOutDen
          < Div(Abs(rb.position) * c, RBLeverage)

\* C19: on a bar with an open position and a margin level under
\* stop_out_level, the position is closed at the close of the bar with
\* exit_reason stop_out, stop-loss and take-profit are not evaluated, and no
\* position is opened on the bar.
C19_StopOutOverrides ==
    [][(rb.pc = "loop" /\ rb'.pc = "loop" /\ RBStopOutAt(rb'.close)) =>
          /\ Len(rb'.trades) = Len(rb.trades) + 1
          /\ Last(rb'.trades).exit_reason = "stop_out"
          /\ Last(rb'.trades).exit_price = rb'.close
          /\ Last(rb'.trades).exit_date = rb.i
          /\ rb'.position = 0
          /\ rb'.opens = rb.opens]_vars

\* A position was stopped out on a bar on which its stop-loss was in range too.
C19_Witness ==
    /\ rb.pc = "loop"
    /\ rb.trades # <<>>
    /\ Last(rb.trades).exit_reason = "stop_out"
    /\ Last(rb.trades).exit_date = rb.i - 1
    /\ Last(rb.trades).side = "long"
    /\ rb.low <= rb.stop_loss

\* C20: after a run over n bars the equity series has n entries.
C20_OneEquityEntryPerBar ==
    rb.pc = "done" => Len(rb.equity_curve) = rb.i

(***************************************************************************)
(* RealisticBacktester: the margin check of an entry                       *)
(***************************************************************************)
\* The step opened a position on the bar.
RBOpened == rb.pc = "loop" /\ rb'.pc = "loop" /\ Len(rb'.opens) > Len(rb.opens)

\* C21: a position is opened only if its required margin plus its entry
\* costs is at most 90 % of the capital before the entry (the capital after
\* it plus the costs, which the entry deducts).
C21_MarginPlusCostsWithinCap ==
    [][RBOpened =>
          \E u \in RBSlipFactors :
             LET costs == RBCosts(rb'.position, TRUE, u).total
             IN (RBRequiredMargin(rb'.position, rb'.close) + costs) * 100
                   <= (rb'.capital + costs) * RBMarginPct]_vars

\* The margin alone is within 90 % of the capital at every entry.
RBMarginAloneWithinCap ==
    [][RBOpened =>
          \E u \in RBSlipFactors :
             RBRequiredMargin(rb'.position, rb'.close) * 100
                <= (rb'.capital + RBCosts(rb'.position, TRUE, u).total) * RBMarginPct]_vars

(***************************************************************************)
(* simulate_real_trading: signals that cannot be afforded                  *)
(***************************************************************************)
\* The step of a bar counted a rejected or skipped signal.
HTSignalRefused ==
    /\ ht.pc = "loop" /\ ht'.pc = "loop"
    /\ ht'.margin_rejections + ht'.skipped_signals
          # ht.margin_rejections + ht.skipped_signals

\* C22: a signal that cannot be afforded increments exactly one of the two
\* counters by one and leaves capital, position and trades as the
\* management of the bar left them (untouched when no position was open; one
\* exit booked when one was), the loop goes on to the next bar, and the
\* result returned carries the counters.
C22_RefusedSignalIsRecoverable ==
    [][/\ HTSignalRefused =>
            /\ \/ /\ ht'.margin_rejections = ht.margin_rejections + 1
                  /\ ht'.skipped_signals = ht.skipped_signals
               \/ /\ ht'.skipped_signals = ht.skipped_signals + 1
                  /\ ht'.margin_rejections = ht.margin_rejections
            /\ ht'.position = 0
            /\ ht'.opens = ht.opens
            /\ ht'.i = ht.i + 1
            /\ ht.position = 0 =>
                  ht'.capital = ht.capital /\ ht'.trades = ht.trades
            /\ ht.position # 0 =>
                  /\ Len(ht'.trades) = Len(ht.trades) + 1
                  /\ SubSeq(ht'.trades, 1, Len(ht.trades)) = ht.trades
                  /\ ht'.capital = ht.capital + Last(ht'.trades).net_pnl
       /\ (ht.pc = "loop" /\ ht'.pc = "done") =>
            /\ ht'.result.margin_rejected = ht.margin_rejections
            /\ ht'.result.skipped = ht.skipped_signals
            /\ ht'.result.final = ht'.capital]_vars

\* A simulation that skipped a signal, went on, traded and returned.
C22_Witness ==
    /\ ht.pc = "done"
    /\ ht.result.skipped >= 1
    /\ ht.result.trades # <<>>

\* A simulation that rejected a signal on margin and returned.
HTMarginRejectedRun ==
    /\ ht.pc = "done"
    /\ ht.result.margin_rejected >= 1

(***************************************************************************)
(* TrendMomentumStrategy: the entry with a missing or zero ATR             *)
(***************************************************************************)
TMEntryEnded ==
    /\ fn.pc = "return"
    /\ fn.f = "TrendMomentumStrategy.backtest: new signal"

\* C23: with a NaN or non-positive ATR, as with any other, the position
\* opened has a finite size and finite stop-loss and take-profit levels, with
\* stop < entry < target for a long and target < entry < stop for a short.
C23_AtrFloorBeforeUse ==
    TMEntryEnded =>
        LET r == fn.result
            entry == Fin(r.entry_price, 1)
        IN /\ r.current_position.kind = "fin"
           /\ r.stop_loss.kind = "fin"
           /\ r.take_profit.kind = "fin"
           /\ r.long => FLess(r.stop_loss, entry) /\ FLess(entry, r.take_profit)
           /\ ~r.long => FLess(r.take_profit, entry) /\ FLess(entry, r.stop_loss)

\* C24: in FinalPropStrategy.backtest_challenge the trailing stop acts
\* only after the price has moved one ATR in favour: as long as no bar of
\* the position had a high above entry + ATR (LONG) or a low below
\* entry - ATR (SHORT), the effective stop of every bar is the fixed
\* stop-loss, and a stop exit is filled at it.
C24_TrailOnlyAfterOneAtr ==
    (fp.pc # "idle" /\ fp.managed /\ ~fp.moved) =>
        /\ fp.eff_sl = fp.sl
        /\ (fp.position = 0 /\ Last(fp.trades).type = "stop")
               => Last(fp.trades).exit_price = fp.sl

\* A position has been through a bar that did not meet the one-ATR
\* condition and is still open.
C24_Witness ==
    fp.pc # "idle" /\ fp.managed /\ ~fp.moved /\ fp.position # 0

\* The trailing stop does take over once the condition is met.
FPTrailActive ==
    fp.pc # "idle" /\ fp.managed /\ fp.moved /\ fp.eff_sl # fp.sl

\* The effective stop of the bar a FinalPropStrategy position has just been
\* through is not looser than the one before it (the fixed stop-loss on the
\* first bar).
FPStopKept ==
    (fp.pc = "loop" /\ fp.position # 0 /\ fp'.i = fp.i + 1) =>
        LET before == IF fp.managed THEN fp.eff_sl ELSE fp.sl
        IN IF fp.position > 0 THEN fp'.eff_sl >= before ELSE fp'.eff_sl <= before

\* The same for OptimizedPropStrategy: the effective stop of the bar is the
\* exit price of a stop or trail exit, and is given by the trailing stop
\* otherwise.
OPStopKept ==
    (op.pc = "loop" /\ op.position # 0 /\ op'.i = op.i + 1) =>
        LET long == op.position > 0
            n == Len(op.trades)
            before == OPEffectiveStop(long, op.stop_loss, op.trailing_stop)
            after == IF Len(op'.trades) > n /\ op'.trades[n + 1].reason \in {"stop", "trail"}
                     THEN op'.trades[n + 1].exit_price
                     ELSE IF op'.opens = op.opens
                     THEN OPEffectiveStop(long, op.stop_loss, op'.trailing_stop)
                     ELSE before
        IN IF long THEN after >= before ELSE after <= before

\* C25: in FinalPropStrategy.backtest_challenge and in
\* OptimizedPropStrategy.backtest_challenge the effective stop of an open
\* LONG never decreases from one bar to the next and the effective stop of
\* an open SHORT never increases, whatever the bars and their ATR values.
C25_EffectiveStopOnlyTightens == [][FPStopKept /\ OPStopKept]_vars

\* A FinalPropStrategy position whose trailing stop has taken over has been
\* through a further bar and is still open.
C25_Witness ==
    /\ fp.pc # "idle" /\ fp.position # 0 /\ fp.managed /\ fp.moved
    /\ fp.eff_sl # fp.sl /\ fp.i >= FPStartIdx + 3

\* An OptimizedPropStrategy position is open with its trailing stop set.
OPTrailing == op.pc = "loop" /\ op.position # 0 /\ op.trailing_stop # 0

\* C26: RealisticBacktester.run_backtest is deterministic: two runs over
\* the same bars, signals and configuration end with the same trade list,
\* the same equity curve and the same final capital.
C26_TwoRunsAgree ==
    (rb.pc = "done" /\ rb2.pc = "done") =>
        /\ rb.trades = rb2.trades
        /\ rb.equity_curve = rb2.equity_curve
        /\ rb.final_capital = rb2.final_capital

\* A bar of run_backtest has been processed with a long position open and
\* its low above the stop-loss of the position.
RBLongAboveStopStep ==
    /\ rb.pc = "loop" /\ rb'.pc = "loop" /\ rb'.i = rb.i + 1
    /\ rb.position > 0
    /\ rb'.low > rb.stop_loss

\* C27: for a LONG position of run_backtest on a bar whose low is above the
\* stop-loss: if the high reaches the take-profit the position is closed at
\* exactly the take-profit, with exit_reason take_profit and gross_pnl =
\* (take_profit - entry_price) x size; if the high is below the take-profit
\* the position stays open with its stop and target unchanged.
C27_LongAboveStop ==
    [][RBLongAboveStopStep =>
         LET n == Len(rb.trades)
         IN IF rb'.high >= rb.take_profit THEN
                /\ Len(rb'.trades) = n + 1
                /\ SubSeq(rb'.trades, 1, n) = rb.trades
                /\ rb'.trades[n + 1].exit_reason = "take_profit"
                /\ rb'.trades[n + 1].exit_price = rb.take_profit
                /\ rb'.trades[n + 1].side = "long"
                /\ rb'.trades[n + 1].position_size = rb.position
                /\ rb'.trades[n + 1].gross_pnl
                       = (rb.take_profit - rb.entry_price) * rb.position
            ELSE
                /\ rb'.trades = rb.trades
                /\ rb'.position = rb.position
                /\ rb'.entry_price = rb.entry_price
                /\ rb'.stop_loss = rb.stop_loss
                /\ rb'.take_profit = rb.take_profit]_vars

\* C27 witness: a long position has been closed at its take-profit on a bar
\* whose low stayed above its stop, away from the close of the bar.
C27_Witness ==
    /\ rb.pc = "loop" /\ rb.trades # <<>>
    /\ Last(rb.trades).side = "long"
    /\ Last(rb.trades).exit_reason = "take_profit"
    /\ Last(rb.trades).exit_date = rb.i - 1
    /\ rb.position = 0
    /\ rb.low > rb.stop_loss
    /\ rb.close # Last(rb.trades).exit_price

\* A long position has stayed open through a bar between its stop and target.
RBLongKept ==
    /\ rb.pc = "loop" /\ rb.position > 0 /\ rb.opens # <<>>
    /\ Last(rb.opens) < rb.i - 1
    /\ rb.low > rb.stop_loss /\ rb.high < rb.take_profit

\* A step of the manager that is a successful open_position call.
RMOpenedStep ==
    /\ rm.pc = "ready" /\ rm'.pc = "ready"
    /\ Len(rm'.trade_history) = Len(rm.trade_history) + 1

\* A step of the manager that is a close_position call for an open symbol.
RMClosedStep ==
    /\ rm.pc = "ready" /\ rm'.pc = "ready"
    /\ rm'.last.op = "close" /\ rm'.last.ok
    /\ rm'.last.symbol \in DOMAIN rm.positions
    /\ rm'.today = rm.today
    /\ rm' # rm

\* A step of the manager that is a close_position call for a symbol that is
\* not open.
RMCloseMissedStep ==
    /\ rm.pc = "ready" /\ rm'.pc = "ready"
    /\ rm'.last.op = "close" /\ ~rm'.last.ok
    /\ rm'.today = rm.today

\* What C28 says of close_position.
RMCloseContract ==
    /\ RMClosedStep =>
         LET symbol == rm'.last.symbol
             position == rm.positions[symbol]
             change == (rm'.last.price - position.entry_price) * position.units
         IN /\ symbol \notin DOMAIN rm'.positions
            /\ \A k \in DOMAIN rm.positions \ {symbol} :
                   k \in DOMAIN rm'.positions /\ rm'.positions[k] = rm.positions[k]
            /\ rm'.current_capital = rm.current_capital + change
            /\ (position.stop_loss_price < position.entry_price
                /\ rm'.last.price > position.entry_price)
                   => rm'.current_capital > rm.current_capital
    /\ RMCloseMissedStep =>
         /\ rm'.positions = rm.positions
         /\ rm'.current_capital = rm.current_capital
         /\ rm'.trade_history = rm.trade_history
         /\ rm'.daily_trades = rm.daily_trades
         /\ rm'.last_trade_date = rm.last_trade_date

\* C28 as stated: after a successful open_position(symbol), positions[symbol]
\* is the returned position and daily_trades is one more than before the
\* call; close_position of an open symbol removes it and changes
\* current_capital by (exit_price - entry_price) x units; close_position of
\* a symbol that is not open changes nothing.
C28_OpenAndClose_Original ==
    [][/\ RMOpenedStep =>
            /\ rm'.last.op = "open" /\ rm'.last.ok
            /\ rm'.last.symbol \in DOMAIN rm'.positions
            /\ rm'.positions[rm'.last.symbol] = rm'.last.returned
            /\ rm'.daily_trades = rm.daily_trades + 1
       /\ RMCloseContract]_vars

\* C28 amended: the same, with daily_trades one more than before the call
\* when the call is made on the date of the last check, and 1 when it is the
\* first call of a new date.
C28_OpenAndClose ==
    [][/\ RMOpenedStep =>
            /\ rm'.last.op = "open" /\ rm'.last.ok
            /\ rm'.last.symbol \in DOMAIN rm'.positions
            /\ rm'.positions[rm'.last.symbol] = rm'.last.returned
            /\ rm'.daily_trades = (IF rm.last_trade_date = rm.today
                                   THEN rm.daily_trades ELSE 0) + 1
       /\ RMCloseContract]_vars

\* C28 witness: a long position opened as the second trade of its date has
\* been closed above its entry.
C28_Witness ==
    /\ rm.pc = "ready"
    /\ rm.last.op = "close" /\ rm.last.ok
    /\ rm.last.returned.stop_loss_price < rm.last.returned.entry_price
    /\ rm.last.price > rm.last.returned.entry_price
    /\ rm.daily_trades = 2
    /\ rm.current_capital > rm.initial_capital

\* A close_position call has found no position for its symbol.
RMCloseMissed == rm.pc = "ready" /\ rm.last.op = "close" /\ ~rm.last.ok

\* The reasons of the three gates of can_open_position.
RMGateReasons == {"Daily trade limit reached", "Maximum drawdown reached",
                  "High correlation with existing position"}

\* The number of trades the manager m has opened on date d.
RMOpenedOn(m, d) ==
    Cardinality({k \in 1..Len(m.trade_history) : m.trade_history[k].date = d})

\* A step of the manager that is an open_position call a gate has rejected.
RMGateRejectedStep ==
    /\ rm.pc = "ready" /\ rm'.pc = "ready"
    /\ rm'.today = rm.today
    /\ rm'.last.op = "open" /\ ~rm'.last.ok
    /\ rm'.last.reason \in RMGateReasons

\* C30: within one calendar date open_position succeeds at most
\* max_daily_trades times: daily_trades never exceeds max_daily_trades and
\* goes back to 0 only in a call made on a new date, and an open_position
\* call rejected by the daily limit, the drawdown gate or the correlation
\* gate returns None and leaves positions, trade_history and
\* current_capital unchanged.
C30_DailyLimit ==
    [][(rm.pc = "ready" /\ rm'.pc = "ready") =>
         /\ rm'.daily_trades <= rm'.cfg.max_daily_trades
         /\ \A d \in 1..RMMaxDays : RMOpenedOn(rm', d) <= rm'.cfg.max_daily_trades
         /\ rm'.daily_trades < rm.daily_trades =>
                /\ rm.last_trade_date # rm.today
                /\ rm'.last_trade_date = rm.today
                /\ rm'.last.op = "open"
         /\ RMGateRejectedStep =>
                /\ rm'.last.returned = RMNone
                /\ rm'.positions = rm.positions
                /\ rm'.trade_history = rm.trade_history
                /\ rm'.current_capital = rm.current_capital]_vars

\* C30 witness: a manager that has opened max_daily_trades trades on a date
\* has had a further call of that date rejected by the daily limit.
C30_Witness ==
    /\ rm.pc = "ready"
    /\ rm.last.op = "open" /\ ~rm.last.ok
    /\ rm.last.reason = "Daily trade limit reached"
    /\ rm.daily_trades = rm.cfg.max_daily_trades
    /\ RMOpenedOn(rm, rm.today) = rm.cfg.max_daily_trades

\* The two other gates have rejected a call, and the counter has been reset.
RMDrawdownRejected ==
    rm.pc = "ready" /\ rm.last.op = "open" /\ rm.last.reason = "Maximum drawdown reached"

RMCorrelationRejected ==
    /\ rm.pc = "ready" /\ rm.last.op = "open"
    /\ rm.last.reason = "High correlation with existing position"
    /\ rm.last.symbol \notin DOMAIN rm.positions

RMCounterReset ==
    /\ rm.pc = "ready" /\ rm.daily_trades = 0 /\ rm.trade_history # <<>>

\* The sum of the risk amounts of the allocations of date d among the first
\* n successful allocations of the manager m.
RECURSIVE MMRiskSum(_, _, _)
MMRiskSum(m, d, n) ==
    IF n = 0 THEN 0
    ELSE (IF m.allocations[n].date = d THEN m.allocations[n].risk_amount ELSE 0)
         + MMRiskSum(m, d, n - 1)

\* A step of the manager that is an allocate_capital call made on the date
\* of the calls before it, a date without a deallocation.
MMAllocateStep ==
    /\ mm.pc = "ready" /\ mm'.pc = "ready"
    /\ mm'.today = mm.today
    /\ mm.last_reset = mm.today
    /\ mm'.last.op = "allocate"
    /\ mm'.deallocated_on = mm.deallocated_on
    /\ \A k \in 1..Len(mm.deallocated_on) : mm.deallocated_on[k] # mm.today

\* C29: over the allocate_capital calls of one day without a deallocation,
\* daily_risk_used is the sum of the risk amounts of the successful
\* allocations and never exceeds current_capital x max_daily_risk; a
\* successful allocation returns an amount of at most
\* current_capital x max_single_position; a rejected allocation returns None
\* and leaves daily_risk_used, positions and sector_exposure unchanged.
C29_DailyRiskAccounting ==
    [][MMAllocateStep =>
         /\ mm'.daily_risk_used = MMRiskSum(mm', mm'.today, Len(mm'.allocations))
         /\ mm'.daily_risk_used * MMUnit
                <= mm'.current_capital * mm'.limits.max_daily_risk
         /\ IF mm'.last.ok THEN
                /\ Len(mm'.allocations) = Len(mm.allocations) + 1
                /\ mm'.last.returned # MMNone
                /\ mm'.last.returned * MMUnit
                       <= mm'.current_capital * mm'.limits.max_single_position
                /\ mm'.daily_risk_used = mm.daily_risk_used + mm'.last.amount
            ELSE
                /\ mm'.last.returned = MMNone
                /\ mm'.allocations = mm.allocations
                /\ mm'.daily_risk_used = mm.daily_risk_used
                /\ mm'.positions = mm.positions
                /\ mm'.sector_exposure = mm.sector_exposure]_vars

\* C29 witness: after two successful allocations of a date that use up the
\* daily risk, a third call of that date has been rejected.
C29_Witness ==
    /\ mm.pc = "ready"
    /\ mm.last.op = "allocate" /\ ~mm.last.ok
    /\ mm.last.reason = "Daily risk limit exceeded"
    /\ mm.deallocated_on = <<>>
    /\ Len(mm.allocations) = 2
    /\ mm.daily_risk_used = MMRiskSum(mm, mm.today, 2)
    /\ mm.daily_risk_used * MMUnit = mm.current_capital * mm.limits.max_daily_risk

\* The other gates of can_allocate have rejected a call.
MMSizeRejected ==
    mm.pc = "ready" /\ mm.last.reason = "Position size exceeds limit"

MMSectorRejected ==
    mm.pc = "ready" /\ mm.last.reason = "Sector exposure limit exceeded"

MMDrawdownRejected ==
    mm.pc = "ready" /\ mm.last.reason = "Maximum drawdown reached"

\* The side the open position of a symbol was opened with: that of the last
\* trade_history record of the symbol.
RMSideOf(m, symbol) ==
    LET ks == {k \in 1..Len(m.trade_history) : m.trade_history[k].symbol = symbol}
        n == CHOOSE k \in ks : \A j \in ks : j <= k
    IN m.trade_history[n].side

\* A step of the manager that is an update_stops call.
RMUpdateStopsStep ==
    /\ rm.pc = "ready" /\ rm'.pc = "ready"
    /\ rm'.last.op = "update_stops"
    /\ DOMAIN rm'.positions = DOMAIN rm.positions

\* C31: RiskManager.update_stops never loosens a stop: the stop_loss_price
\* of a long position never decreases and that of a short position never
\* increases, and a position without a price or an ATR in the call is left
\* unchanged.
C31_StopsNeverLoosen ==
    [][RMUpdateStopsStep =>
         \A k \in DOMAIN rm.positions :
             /\ RMSideOf(rm, k) = "long" =>
                    rm'.positions[k].stop_loss_price >= rm.positions[k].stop_loss_price
             /\ RMSideOf(rm, k) = "short" =>
                    rm'.positions[k].stop_loss_price <= rm.positions[k].stop_loss_price
             /\ k \notin rm'.supplied => rm'.positions[k] = rm.positions[k]]_vars

\* What does hold: the stop of a long position never decreases, and a
\* position without a price or an ATR in the call is left unchanged.
RMLongStopsNeverLoosen ==
    [][RMUpdateStopsStep =>
         \A k \in DOMAIN rm.positions :
             /\ RMSideOf(rm, k) = "long" =>
                    rm'.positions[k].stop_loss_price >= rm.positions[k].stop_loss_price
             /\ k \notin rm'.supplied => rm'.positions[k] = rm.positions[k]]_vars

\* A bar of WorkingStrategy.backtest on which the open position has been
\* closed by a signal reversal.
WSReversalStep ==
    /\ ws.pc = "loop" /\ ws'.pc = "loop" /\ ws'.i = ws.i + 1
    /\ Len(ws'.trades) = Len(ws.trades) + 1
    /\ Last(ws'.trades).exit_reason = "signal_reversal"

\* C32: in WorkingStrategy.backtest a signal_reversal exit happens only on
\* a bar where a signal of the opposite direction fires (the entry of that
\* bar is on the opposite side) and neither the effective stop nor the
\* take-profit was hit on that bar, and it is filled at the close of the bar.
C32_ReversalExit ==
    [][WSReversalStep =>
         LET t == Last(ws'.trades)
         IN /\ ws.position # 0
            /\ t.side = (IF ws.position > 0 THEN "long" ELSE "short")
            /\ t.exit_date = ws.i
            /\ t.exit_price = ws'.close
            /\ IF ws.position > 0
               THEN ws'.low > ws'.effective_stop /\ ws'.high < ws.take_profit
               ELSE ws'.high < ws'.effective_stop /\ ws'.low > ws.take_profit
            /\ ws'.opens = Append(ws.opens, ws.i)
            /\ ws'.current_trade.side = (IF ws.position > 0 THEN "short" ELSE "long")]_vars

\* C32 witness: a long position has been closed by a signal reversal at a
\* close strictly between the low and the high of the bar.
C32_Witness ==
    /\ ws.pc = "loop" /\ ws.trades # <<>>
    /\ Last(ws.trades).exit_reason = "signal_reversal"
    /\ Last(ws.trades).side = "long"
    /\ Last(ws.trades).exit_date = ws.i - 1
    /\ Last(ws.trades).exit_price = ws.close
    /\ ws.low < ws.close /\ ws.close < ws.high


\* A bar of PropFirmStrategy.backtest that leaves the loop running.
PFBarStep == pf.pc = "loop" /\ pf'.i = pf.i + 1

\* C33: in PropFirmStrategy.backtest a position opened at bar i uses the
\* signal generated for bar i itself, and after every bar all the signals
\* generated so far are behind signal_idx: a signal of an earlier bar,
\* fired while a position was open or not, is never used for a later entry.
C33_EntryUsesOwnSignal ==
    [][PFBarStep =>
         /\ pf'.signal_idx = Len(pf'.signals) + 1
         /\ pf'.opens # pf.opens =>
               /\ pf'.opens = Append(pf.opens, pf.i)
               /\ pf'.signals # pf.signals
               /\ LET sig == Last(pf'.signals)
                  IN /\ sig.idx = pf.i
                     /\ sig.entry = pf'.close
                     /\ pf'.entry_price = sig.entry
                     /\ pf'.stop_loss = sig.stop_loss
                     /\ pf'.take_profit = sig.take_profit
                     /\ (pf'.position > 0 => sig.direction = "LONG")
                     /\ (pf'.position < 0 => sig.direction = "SHORT")]_vars

\* C33 witness: a position has just been opened on the signal of its own
\* bar while an earlier signal, fired during the previous position, was
\* never used.
C33_Witness ==
    /\ pf.pc = "loop" /\ pf.position # 0
    /\ pf.opens # <<>> /\ Last(pf.opens) = pf.i - 1
    /\ Last(pf.signals).idx = pf.i - 1
    /\ \E k \in 1..Len(pf.signals) :
          /\ pf.signals[k].idx < pf.i - 1
          /\ \A j \in 1..Len(pf.opens) : pf.opens[j] # pf.signals[k].idx


\* C34: in PropFirmChallenge.run_challenge every run that is not failed and
\* whose final realized profit reaches the profit target with at least
\* min_trading_days trading days is reported passed, also when the target
\* or the day count is reached only by the closing of the open position at
\* the end of the time window.
C34_PassedWhenTargetMet ==
    (/\ ch.pc = "done" /\ ~ch.failed
     /\ CHPassed(ch.final_capital, ch.start_capital, ch.trading_days, ch.cfg))
    => ch.passed

\* The runs of C34 whose loop ran to its end with no position left to close
\* are reported as the claim says.
CHPassedWhenFlat ==
    (/\ ch.pc = "done" /\ ~ch.failed /\ ch.position = 0
     /\ CHPassed(ch.final_capital, ch.start_capital, ch.trading_days, ch.cfg))
    => ch.passed


\* C35: in WorkingStrategy.backtest every stop, take-profit or
\* signal-reversal exit is filled at a price inside the [low, high] range
\* of the bar of the exit.
C35_ExitInsideBar ==
    (/\ ws.pc = "loop" /\ ws.trades # <<>>
     /\ Last(ws.trades).exit_date = ws.i - 1
     /\ Last(ws.trades).exit_reason \in {"stop_loss", "take_profit", "signal_reversal"})
    => /\ ws.low <= Last(ws.trades).exit_price
       /\ Last(ws.trades).exit_price <= ws.high

\* The signal-reversal exits of C35 are filled at the close, inside the bar.
WSReversalInsideBar ==
    (/\ ws.pc = "loop" /\ ws.trades # <<>>
     /\ Last(ws.trades).exit_date = ws.i - 1
     /\ Last(ws.trades).exit_reason = "signal_reversal")
    => /\ ws.low <= Last(ws.trades).exit_price
       /\ Last(ws.trades).exit_price <= ws.high


(***************************************************************************)
(* ProfitableStrategy.backtest: the final capital and the recorded trades  *)
(***************************************************************************)
RECURSIVE PBPnlSum(_)
PBPnlSum(trades) ==
    IF trades = <<>> THEN 0 ELSE trades[1].pnl + PBPnlSum(Tail(trades))

\* C36: in ProfitableStrategy.backtest the returned final_capital equals
\* the initial capital plus the sum of pnl over all recorded trades,
\* including the half-position exit at the first take-profit.
C36_FinalCapitalIsTradeSum ==
    pb.pc = "done" => pb.final_capital = PBInitialCapital + PBPnlSum(pb.trades)

\* The final capital is the initial capital plus the P&L of the recorded
\* trades plus the P&L of the half exits, which no trade records.
PBFinalCapitalAccounting ==
    pb.pc = "done" =>
        pb.final_capital = PBInitialCapital + PBPnlSum(pb.trades) + pb.partial_pnl


(***************************************************************************)
(* RiskManager: the trade record of a closed position                      *)
(***************************************************************************)
\* The index of the trade_history record created by the latest opening of
\* the symbol.
RMRecordOf(m, symbol) ==
    CHOOSE k \in 1..Len(m.trade_history) :
        /\ m.trade_history[k].symbol = symbol
        /\ \A j \in (k + 1)..Len(m.trade_history) : m.trade_history[j].symbol # symbol

\* C37: close_position(symbol) writes exit_price and pnl into the
\* trade_history record created when the position of that symbol was
\* opened, and into no other record, for any interleaving of the openings
\* and closings of several symbols.
C37_CloseWritesOwnRecord ==
    [][RMClosedStep =>
         LET symbol == rm'.last.symbol
             position == rm.positions[symbol]
             k == RMRecordOf(rm, symbol)
         IN /\ Len(rm'.trade_history) = Len(rm.trade_history)
            /\ rm'.trade_history[k].symbol = symbol
            /\ rm'.trade_history[k].closed
            /\ rm'.trade_history[k].exit_price = rm'.last.price
            /\ rm'.trade_history[k].pnl
                   = (rm'.last.price - position.entry_price) * position.units
            /\ \A j \in 1..Len(rm.trade_history) :
                   j # k => rm'.trade_history[j] = rm.trade_history[j]]_vars

\* When the closed symbol is the one opened last, its record is the one
\* written.
RMCloseWritesLastRecord ==
    [][(RMClosedStep /\ Last(rm.trade_history).symbol = rm'.last.symbol) =>
         LET n == Len(rm.trade_history)
         IN /\ rm'.trade_history[n].symbol = rm'.last.symbol
            /\ rm'.trade_history[n].closed
            /\ rm'.trade_history[n].exit_price = rm'.last.price
            /\ \A j \in 1..(n - 1) : rm'.trade_history[j] = rm.trade_history[j]]_vars


(***************************************************************************)
(* RiskManager: the P&L of a closed short position                         *)
(***************************************************************************)
\* C38: for a position opened with side 'short', close_position at an exit
\* price below the entry price increases current_capital, and at an exit
\* price above the entry price decreases it.
C38_ShortPnlSign ==
    [][(RMClosedStep /\ RMSideOf(rm, rm'.last.symbol) = "short") =>
         LET position == rm.positions[rm'.last.symbol]
         IN /\ rm'.last.price < position.entry_price
                => rm'.current_capital > rm.current_capital
            /\ rm'.last.price > position.entry_price
                => rm'.current_capital < rm.current_capital]_vars

\* For a position opened with side 'long' the capital moves with the price.
RMLongPnlSign ==
    [][(RMClosedStep /\ RMSideOf(rm, rm'.last.symbol) = "long") =>
         LET position == rm.positions[rm'.last.symbol]
         IN /\ rm'.last.price > position.entry_price
                => rm'.current_capital > rm.current_capital
            /\ rm'.last.price < position.entry_price
                => rm'.current_capital < rm.current_capital]_vars


(***************************************************************************)
(* MoneyManager: the sector exposure after a deallocation                  *)
(***************************************************************************)
\* A deallocate_capital step for the only position of the manager, allocated
\* with a sector by the only allocate_capital call made so far, that is
\* given the sector: the exposure of the sector is changed by the call.
MMSingleRoundTripStep ==
    /\ mm.pc = "ready" /\ mm'.pc = "ready"
    /\ mm'.last.op = "deallocate" /\ mm'.last.ok
    /\ Len(mm.allocations) = 1 /\ mm.deallocated_on = <<>>
    /\ Len(mm'.deallocated_on) = 1
    /\ Cardinality(DOMAIN mm.positions) = 1
    /\ DOMAIN mm.sector_exposure = {"Precious Metals"}
    /\ mm'.sector_exposure # mm.sector_exposure

\* C39: for a sector holding a single allocated position, allocate_capital
\* followed by deallocate_capital restores the exposure of the sector to its
\* value before the allocation: the sector is removed from sector_exposure,
\* for any realized pnl.
C39_RoundTripRestoresExposure ==
    [][MMSingleRoundTripStep =>
          /\ mm'.positions = <<>>
          /\ "Precious Metals" \notin DOMAIN mm'.sector_exposure]_vars

\* With a realized loss the capital is smaller at the deallocation than at
\* the allocation, and the sector is removed.
MMRoundTripAfterLoss ==
    [][(MMSingleRoundTripStep /\ mm'.current_capital <= mm.current_capital) =>
          /\ mm'.positions = <<>>
          /\ "Precious Metals" \notin DOMAIN mm'.sector_exposure]_vars

====
